---- MODULE Spec2Model ----
\* Logging harness of the SauceDemo Playwright suites (cart, checkout, login,
\* sort): per-run log, per-feature summary, global summary, rotation of old
\* per-run logs, the timed-action wrapper and the statistics counters.
\* Every worker slot executes a sequence of runs (one run = one load of a
\* test file); other processes interleave at every step.
EXTENDS Integers, Sequences, FiniteSets, TLC

\* ---------------------------------------------------------------- bounds
MaxOld == 11
MaxCrowd == 10
MaxOpFails == 1
MaxSlow == 1
MaxTests == 1
MaxActions == 0
MaxFsFaults == 1
MaxAppendFaults == 1
MaxFaultPoint == 3
MaxPassed == 3

\* ------------------------------------------------------ program constants
KeepCount == 10
SlowThreshold == 5000

Workers == {"chromium", "firefox"}
Features == {"cart_feature", "checkout_feature", "login_feature", "sort_feature"}
Durations == {SlowThreshold, SlowThreshold + 1}
OpErrors == {"TimeoutError"}
NoErr == "none"
AppendErr == "EAPPEND"
FsErrors == {"ENOENT", "EIO", "EPERM"}

VARIABLES fs, nextId, budget, pc, run, testStats, calls, rot, act,
          tests, acts, beIdx, escaped, liveDeleted, rotDone, browser

vars == <<fs, nextId, budget, pc, run, testStats, calls, rot, act,
          tests, acts, beIdx, escaped, liveDeleted, rotDone, browser>>

\* ------------------------------------------------------------ file names
baseLogsDir == <<"test-logs">>
TestFileLogsDir(f) == <<"test-logs", f>>
TestRunId(n) == <<"run_", n>>
LogFileName(f, n) == <<f, "_tests_">> \o TestRunId(n) \o <<".log">>
LogFilePath(r) == [dir |-> TestFileLogsDir(r.file), name |-> LogFileName(r.file, r.id)]
SummaryLogPath(f) == [dir |-> TestFileLogsDir(f), name |-> <<f, "_summary", ".log">>]
MasterSummaryPath == [dir |-> baseLogsDir, name |-> <<"all_tests_summary", ".log">>]

StartsWith(name, prefix) ==
    /\ Len(name) >= Len(prefix)
    /\ \A i \in 1..Len(prefix) : name[i] = prefix[i]
EndsWith(name, suffix) ==
    /\ Len(name) >= Len(suffix)
    /\ \A i \in 1..Len(suffix) : name[Len(name) - Len(suffix) + i] = suffix[i]

\* the filter of cleanupOldLogs
IsRunLog(name, f) ==
    /\ StartsWith(name, <<f, "_tests_", "run_">>)
    /\ EndsWith(name, <<".log">>)

\* -------------------------------------------------------------- messages
\* a message is a sequence of word tokens; interpolated numbers travel in val
Includes(message, pattern) ==
    \E i \in 0..(Len(message) - Len(pattern)) :
        \A j \in 1..Len(pattern) : message[i + j] = pattern[j]

OkGlyph == "OK_GLYPH"
FailGlyph == "FAIL_GLYPH"
WarnGlyph == "WARN_GLYPH"

InitLogHeader(r) == [lvl |-> "-", run |-> r.id, file |-> "-",
                     msg |-> <<"HEADER", r.file, "Test", "Run", "ID">>, val |-> <<r.id>>]
SummaryHeader(r) == [lvl |-> "-", run |-> 0, file |-> "-",
                     msg |-> <<r.file, "Run", "Started">>, val |-> <<r.id>>]
MasterHeader(r) == [lvl |-> "-", run |-> 0, file |-> r.file,
                    msg |-> <<"Test", "Run", "Started">>, val |-> <<r.id>>]

LogEntry(level, message, vals) ==
    [lvl |-> level, run |-> 0, file |-> "-", msg |-> message, val |-> vals]
SummaryEntry(r, message, vals) ==
    [lvl |-> "-", run |-> r.id, file |-> "-", msg |-> message, val |-> vals]
MasterEntry(r, message, vals) ==
    [lvl |-> "-", run |-> r.id, file |-> r.file, msg |-> message, val |-> vals]

\* variant: the glyph tests are lost
ToSummaryLevelsOnly(level, message) == level \in {"ERROR", "SUMMARY"}

ToSummary(level, message) ==
    \/ level = "ERROR"
    \/ level = "SUMMARY"
    \/ Includes(message, <<OkGlyph>>)
    \/ Includes(message, <<FailGlyph>>)

ToMaster(level, message) ==
    \/ level = "ERROR"
    \/ level = "CRITICAL"
    \/ Includes(message, <<"TEST", "START">>)
    \/ Includes(message, <<"COMPLETED">>)

\* ----------------------------------------------------------- file system
\* the two summary files, as opposed to the per-run logs
IsShared(p) == Len(p.name) < 5
Exists(F, p) == p \in DOMAIN F
LinesOf(F, p) == IF p \in DOMAIN F THEN F[p].lines ELSE <<>>

\* variant: the file is opened for writing, not for appending
AppendFileTruncating(F, p, line, t) ==
    [q \in (DOMAIN F) \cup {p} |-> IF q = p THEN [mtime |-> t, lines |-> <<line>>] ELSE F[q]]

\* variant: the new line is put in front of the file
AppendFileInFront(F, p, line, t) ==
    IF p \in DOMAIN F
    THEN [F EXCEPT ![p] = [mtime |-> t, lines |-> <<line>> \o @.lines]]
    ELSE F @@ (p :> [mtime |-> t, lines |-> <<line>>])

\* fs.appendFileSync: creates the file when it is missing
AppendFile(F, p, line, t) ==
    IF p \in DOMAIN F
    THEN [F EXCEPT ![p] = [mtime |-> t, lines |-> Append(@.lines, line)]]
    ELSE F @@ (p :> [mtime |-> t, lines |-> <<line>>])

\* the same, when the content of the file is not followed (the code never reads
\* a log back): only the file and its time are kept
TouchFile(F, p, t) ==
    IF p \in DOMAIN F
    THEN [F EXCEPT ![p] = [mtime |-> t, lines |-> @.lines]]
    ELSE F @@ (p :> [mtime |-> t, lines |-> <<>>])

\* fs.writeFileSync: creates or truncates
WriteFile(F, p, text, t) ==
    [q \in (DOMAIN F) \cup {p} |-> IF q = p THEN [mtime |-> t, lines |-> text] ELSE F[q]]

\* fs.unlinkSync of an existing file
Unlink(F, p) == [q \in (DOMAIN F) \ {p} |-> F[q]]

\* fs.readdirSync(testFileLogsDir).filter(...)
RunLogNames(F, f) ==
    {p.name : p \in {q \in DOMAIN F : q.dir = TestFileLogsDir(f) /\ IsRunLog(q.name, f)}}


\* ------------------------------------------------- synchronous code blocks
\* S is the state a synchronous block of one process works on: the file
\* system, the run's testStats, the logToFile calls made so far, the fault
\* countdown k (the k-th append of the block raises; 0: none) and the pending
\* exception.
Block(w, k) == [fs |-> fs, st |-> testStats[w], calls |-> calls[w],
                k |-> k, err |-> NoErr, fired |-> FALSE,
                content |-> budget.content, shared |-> budget.shared]

DoAppend(S, p, line, t) ==
    IF S.err # NoErr THEN S
    ELSE IF S.k = 1 THEN [S EXCEPT !.k = 0, !.err = AppendErr, !.fired = TRUE]
    ELSE [S EXCEPT !.fs = IF (IF IsShared(p) THEN S.shared ELSE S.content)
                          THEN AppendFile(S.fs, p, line, t)
                          ELSE TouchFile(S.fs, p, t),
                   !.k = IF @ > 1 THEN @ - 1 ELSE 0]

Call(level, message, vals) == [lvl |-> level, msg |-> message, val |-> vals]

LogToFile(S, r, t, c) ==
    IF S.err # NoErr THEN S
    ELSE LET S0 == [S EXCEPT !.calls = IF S.content THEN Append(@, c) ELSE @]
             S1 == DoAppend(S0, LogFilePath(r), LogEntry(c.lvl, c.msg, c.val), t)
             S2 == IF ToSummary(c.lvl, c.msg)
                   THEN DoAppend(S1, SummaryLogPath(r.file), SummaryEntry(r, c.msg, c.val), t)
                   ELSE S1
             S3 == IF ToMaster(c.lvl, c.msg)
                   THEN DoAppend(S2, MasterSummaryPath, MasterEntry(r, c.msg, c.val), t)
                   ELSE S2
         IN S3

RECURSIVE LogAll(_, _, _, _)
LogAll(S, r, t, cs) ==
    IF cs = <<>> THEN S
    ELSE LogAll(LogToFile(S, r, t, Head(cs)), r, t, Tail(cs))

\* variant: the counter is stepped by two
IncTwice(S, field) ==
    IF S.err # NoErr THEN S ELSE [S EXCEPT !.st[field] = @ + 2]

Inc(S, field) ==
    IF S.err # NoErr THEN S ELSE [S EXCEPT !.st[field] = @ + 1]

\* variant: a catch clause that lets the exception through
Uncaught(S) == S

\* entering a catch clause: the exception is no longer pending
Catch(S) == [S EXCEPT !.err = NoErr]

\* ------------------------------------------------------ per-suite details
HasSlowCounter(f) == f # "sort_feature"
HasWarningCounter(f) == f # "sort_feature"
HasEnvLine(f) == f # "sort_feature"
BeforeAllTimed(f) == f # "login_feature"
NumBeforeEach(f) == IF f = "checkout_feature" THEN 5 ELSE 2
HasCategory(f) == f # "sort_feature"
StatisticsCalls(f) == IF f = "sort_feature" THEN 2 ELSE 1

NewStats == [passed |-> 0, failed |-> 0, warnings |-> 0, slowOps |-> 0, category |-> 0]

Rule == Call("SUMMARY", <<"====">>, <<>>)

LogTestEnvironment(S, r, t) ==
    LogAll(S, r, t,
        <<Rule,
          Call("SUMMARY", <<"TEST", "FILE", ":", r.file>>, <<>>),
          Call("SUMMARY", <<"TEST", "SUITE", ":", r.file>>, <<>>),
          Call("SUMMARY", <<"Node", "Version">>, <<>>),
          Call("SUMMARY", <<"Platform">>, <<>>),
          Call("SUMMARY", <<"Working", "Directory">>, <<>>),
          Call("SUMMARY", <<"Log", "Directory">>, <<>>),
          Call("SUMMARY", <<"Current", "Log", "File">>, <<r.id>>)>>
        \o (IF HasEnvLine(r.file)
            THEN <<Call("SUMMARY", <<"Environment", "Variables", "Loaded">>, <<>>)>>
            ELSE <<>>)
        \o <<Rule>>)

\* variant: only the two outcome counters are reported
LogTestStatisticsOutcomes(S, r, t, duration) ==
    LogAll(S, r, t,
        <<Call("SUMMARY", <<>>, <<>>),
          Rule,
          Call("SUMMARY", <<"STATS_GLYPH", r.file, "FINAL", "STATISTICS">>, <<>>),
          Call("SUMMARY", <<"CLOCK_GLYPH", "Test", "Run", "Duration", ":">>, duration),
          Call("SUMMARY", <<OkGlyph, "Tests", "Passed", ":">>, <<S.st.passed>>),
          Call("SUMMARY", <<FailGlyph, "Tests", "Failed", ":">>, <<S.st.failed>>),
          Rule>>)

LogTestStatistics(S, r, t, duration) ==
    LogAll(S, r, t,
        <<Call("SUMMARY", <<>>, <<>>),
          Rule,
          Call("SUMMARY", <<"STATS_GLYPH", r.file, "FINAL", "STATISTICS">>, <<>>),
          Call("SUMMARY", <<"CLOCK_GLYPH", "Test", "Run", "Duration", ":">>, duration),
          Call("SUMMARY", <<OkGlyph, "Tests", "Passed", ":">>, <<S.st.passed>>),
          Call("SUMMARY", <<FailGlyph, "Tests", "Failed", ":">>, <<S.st.failed>>),
          Call("SUMMARY", <<WarnGlyph, "Warnings", "Generated", ":">>, <<S.st.warnings>>),
          Call("SUMMARY", <<"SNAIL_GLYPH", "Slow", "Operations", ":">>, <<S.st.slowOps>>)>>
        \o (IF HasCategory(r.file)
            THEN <<Call("SUMMARY", <<"Category", "Tests", ":">>, <<S.st.category>>)>>
            ELSE <<>>)
        \o <<Rule>>)

\* ----------------------------------------------------------------- sort
\* files.sort((a, b) => b.time - a.time): stable, newest first
RECURSIVE InsertDesc(_, _)
InsertDesc(sorted, x) ==
    IF sorted = <<>> THEN <<x>>
    ELSE IF Head(sorted).time >= x.time
         THEN <<Head(sorted)>> \o InsertDesc(Tail(sorted), x)
         ELSE <<x>> \o sorted

RECURSIVE SortDesc(_)
SortDesc(files) ==
    IF files = <<>> THEN <<>>
    ELSE InsertDesc(SortDesc(SubSeq(files, 1, Len(files) - 1)), files[Len(files)])

\* variant: off by one
SliceOneMore(files, from) == SubSeq(files, from + 2, Len(files))

\* files.slice(10)
Slice(files, from) == SubSeq(files, from + 1, Len(files))

\* readdirSync returns the names in directory order: here by run id
RECURSIVE SeqOfNames(_)
SeqOfNames(names) ==
    IF names = {} THEN <<>>
    ELSE LET m == CHOOSE x \in names : \A y \in names : x[4] <= y[4]
         IN <<m>> \o SeqOfNames(names \ {m})

NoRotation == [names |-> <<>>, files |-> <<>>, del |-> <<>>, i |-> 0,
               result |-> "none", foreign |-> FALSE, before |-> {}, left |-> {},
               deleted |-> {}, err |-> NoErr]
NoAction == [status |-> "none", ctx |-> "-", where |-> "-", cont |-> "-",
             opErr |-> NoErr, thrown |-> NoErr, dur |-> 0, from |-> 0, slowBefore |-> 0]


\* ---------------------------------------------------------------- helpers
Live(v) == pc[v] \notin {"idle", "done"}
IsLiveRun(id) == \E v \in Workers : Live(v) /\ run[v].id = id
FaultPoints == IF budget.appendFaults > 0 THEN 0..MaxFaultPoint ELSE {0}

\* what one step of worker w leaves behind; a change of the directory made by
\* w is recorded in the rotations other workers have in progress there
MarkRot(w, R) ==
    [x \in Workers |->
        IF x = w THEN R
        ELSE IF rot[x].result = "busy" /\ run[x].file = run[w].file
             THEN [rot[x] EXCEPT !.foreign = TRUE]
             ELSE rot[x]]

\* Modification times are kept as ranks: the code only compares them
\* (b.time - a.time), so a time is the number of per-run logs written earlier.
\* The summary files are never stat-ed; their time stays 0.
Normalize(F) ==
    [p \in DOMAIN F |->
        IF IsShared(p) THEN [F[p] EXCEPT !.mtime = 0]
        ELSE [F[p] EXCEPT !.mtime =
                 1 + Cardinality({q \in DOMAIN F : ~IsShared(q) /\ F[q].mtime < F[p].mtime})]]

\* Date.now() of a write: later than every time in the file system
Now == 1 + Cardinality(DOMAIN fs)

Commit(w, S, B) ==
    /\ fs' = Normalize(S.fs)
    /\ testStats' = [testStats EXCEPT ![w] = S.st]
    /\ calls' = [calls EXCEPT ![w] = S.calls]
    /\ budget' = [B EXCEPT !.appendFaults = IF S.fired THEN @ - 1 ELSE @]

\* an exception that leaves a hook or a test body reaches the runner
Escape(w, S, okPc) ==
    /\ pc' = [pc EXCEPT ![w] = IF S.err = NoErr THEN okPc ELSE "teardown"]
    /\ escaped' = [escaped EXCEPT ![w] = IF S.err = NoErr THEN @ ELSE S.err]

Starting(ctx) == Call("ACTION", <<"WATCH_GLYPH", "STARTING", ":", ctx>>, <<>>)
Pending(w, S, ctx, where, cont) ==
    [NoAction EXCEPT !.status = "pending", !.ctx = ctx, !.where = where, !.cont = cont,
                     !.from = Len(S.calls), !.slowBefore = S.st.slowOps]

\* the catch block of a test body
\* variant: the failure is logged but not counted
TestCatchBlockUncounted(S, r, t, e) ==
    LogToFile(Catch(S), r, t,
              Call("ERROR", <<FailGlyph, "TEST", "FAILED", ":", e>>, <<>>))

TestCatchBlock(S, r, t, e) ==
    LogToFile(Inc(Catch(S), "failed"), r, t,
              Call("ERROR", <<FailGlyph, "TEST", "FAILED", ":", e>>, <<>>))

\* ------------------------------------------------------------ module load
ModuleLoad(w) ==
    /\ UNCHANGED browser
    /\ pc[w] \in {"idle", "done"}
    /\ budget.loads[w] > 0
    /\ LET r == [id |-> nextId[w], file |-> run[w].file]
           t == Now
           S0 == [Block(w, 0) EXCEPT !.st = NewStats, !.calls = <<>>,
                                     !.fs = WriteFile(fs, LogFilePath(r),
                                                      IF budget.content THEN <<InitLogHeader(r)>> ELSE <<>>, t)]
           S1 == DoAppend(S0, SummaryLogPath(r.file), SummaryHeader(r), t)
           S2 == DoAppend(S1, MasterSummaryPath, MasterHeader(r), t)
       IN /\ Commit(w, S2, [budget EXCEPT !.loads[w] = @ - 1])
          /\ run' = [run EXCEPT ![w] = r]
          /\ nextId' = [nextId EXCEPT ![w] = @ + 2]
          /\ pc' = [pc EXCEPT ![w] = "loaded"]
          /\ escaped' = [escaped EXCEPT ![w] = NoErr]
          /\ rot' = MarkRot(w, NoRotation)
          /\ act' = [act EXCEPT ![w] = NoAction]
          /\ tests' = [tests EXCEPT ![w] = 0]
          /\ acts' = [acts EXCEPT ![w] = 0]
          /\ beIdx' = [beIdx EXCEPT ![w] = 0]
          /\ UNCHANGED <<liveDeleted, rotDone>>

\* the file was loaded but the runner schedules none of its tests in this
\* process: no hook runs
SkipHooks(w) ==
    /\ UNCHANGED browser
    /\ pc[w] = "loaded"
    /\ pc' = [pc EXCEPT ![w] = "done"]
    /\ UNCHANGED <<fs, nextId, budget, run, testStats, calls, rot, act,
                   tests, acts, beIdx, escaped, liveDeleted, rotDone>>

\* ---------------------------------------------------------------- beforeAll
\* the per-run logs of the directory of run r
RunLogs(F, r) == RunLogNames(F, r.file)

\* logTestEnvironment(), then the call of cleanupOldLogs()
\* the authenticated page a beforeAll hook asks for is set up
FixturesReady(w) == budget.browser => browser[w].live

BeforeAllBegin(w) ==
    /\ UNCHANGED browser
    /\ pc[w] = "loaded"
    /\ FixturesReady(w)
    /\ budget.hooked[w] > 0
    /\ \E k \in FaultPoints :
        LET S == LogTestEnvironment(Block(w, k), run[w], Now)
        IN /\ Commit(w, S, [budget EXCEPT !.hooked[w] = @ - 1])
           /\ Escape(w, S, "rot_list")
           /\ rot' = MarkRot(w, IF S.err = NoErr
                                THEN [NoRotation EXCEPT !.result = "busy",
                                                        !.before = RunLogs(S.fs, run[w])]
                                ELSE NoRotation)
           /\ UNCHANGED <<nextId, run, act, tests, acts, beIdx, liveDeleted, rotDone>>

\* variant: the failure is swallowed without a line
CleanupCatchSilent(S, r, t) == Catch(S)

\* the catch block of cleanupOldLogs, entered with the exception in S.err
CleanupCatch(S, r, t) ==
    LET S1 == LogToFile(Catch(S), r, t,
                  Call("WARNING", <<WarnGlyph, "Failed", "to", "cleanup", "old", "logs", ":", S.err>>, <<>>))
    IN IF HasWarningCounter(r.file) THEN Inc(S1, "warnings") ELSE S1

\* cleanupOldLogs ends in its catch block: S holds the exception
RotFailed(w, S, B) ==
    LET S1 == CleanupCatch(S, run[w], Now)
    IN /\ Commit(w, S1, B)
       /\ Escape(w, S1, "ba_rest")
       /\ rot' = MarkRot(w, [rot[w] EXCEPT !.result = "failed", !.err = S.err,
                                           !.left = RunLogs(S1.fs, run[w])])
       /\ rotDone' = TRUE
       /\ UNCHANGED <<nextId, run, act, tests, acts, beIdx>>

\* an injected failure of readdirSync, statSync or unlinkSync
FsFault(w, k, e) ==
    /\ budget.fsFaults > 0
    /\ RotFailed(w, [Block(w, k) EXCEPT !.err = e], [budget EXCEPT !.fsFaults = @ - 1])
    /\ UNCHANGED liveDeleted

\* variant: the rotation never deletes
FilesToDeleteNone(sorted) == <<>>

\* variant: the threshold is reached one file early
FilesToDeleteAtTen(sorted) ==
    IF Len(sorted) >= KeepCount THEN Slice(sorted, KeepCount - 1) ELSE <<>>

\* if (files.length > 10) files.slice(10)
FilesToDelete(sorted) ==
    IF Len(sorted) > KeepCount THEN Slice(sorted, KeepCount) ELSE <<>>

\* the rest of the try block once every listed file has been stat-ed
RotSorted(w, k, files) ==
    LET r == run[w]
        t == Now
        sorted == SortDesc(files)
        S1 == LogToFile(Block(w, k), r, t,
                  Call("INFO", <<"FOLDER_GLYPH", "Found", "existing", "log", "files">>, <<Len(sorted)>>))
        del == FilesToDelete(sorted)
        S2 == IF del # <<>>
              THEN LogToFile(S1, r, t,
                       Call("INFO", <<"BIN_GLYPH", "Cleaning", "up", "old", "log", "files">>, <<Len(del)>>))
              ELSE S1
    IN IF S2.err # NoErr
       THEN RotFailed(w, S2, budget)
       ELSE /\ Commit(w, S2, budget)
            /\ pc' = [pc EXCEPT ![w] = IF del = <<>> THEN "ba_rest" ELSE "rot_unlink"]
            /\ rot' = MarkRot(w, [rot[w] EXCEPT !.files = sorted, !.del = del, !.i = 1,
                                                !.result = IF del = <<>> THEN "ok" ELSE "busy",
                                                !.left = IF del = <<>> THEN RunLogs(S2.fs, r) ELSE @])
            /\ rotDone' = (rotDone \/ del = <<>>)
            /\ UNCHANGED <<nextId, run, act, tests, acts, beIdx, escaped>>

\* fs.readdirSync(testFileLogsDir).filter(...)
RotList(w) ==
    /\ UNCHANGED browser
    /\ pc[w] = "rot_list"
    /\ \/ /\ rot' = [rot EXCEPT ![w].names = SeqOfNames(RunLogs(fs, run[w]))]
          /\ pc' = [pc EXCEPT ![w] = "rot_stat"]
          /\ UNCHANGED <<fs, nextId, budget, run, testStats, calls, act,
                         tests, acts, beIdx, escaped, liveDeleted, rotDone>>
       \/ \E k \in FaultPoints : FsFault(w, k, "EIO")

\* .map(file => ... fs.statSync(...) ...): the listed files are stat-ed in
\* listing order; a missing one raises
RECURSIVE StatAll(_, _, _)
StatAll(F, f, names) ==
    IF names = <<>> THEN <<>>
    ELSE LET p == [dir |-> TestFileLogsDir(f), name |-> Head(names)]
         IN <<[name |-> Head(names), time |-> F[p].mtime]>> \o StatAll(F, f, Tail(names))

RotStat(w) ==
    /\ UNCHANGED browser
    /\ pc[w] = "rot_stat"
    /\ LET f == run[w].file
           missing == \E i \in 1..Len(rot[w].names) :
                          ~Exists(fs, [dir |-> TestFileLogsDir(f), name |-> rot[w].names[i]])
       IN \/ /\ ~missing
             /\ \E k \in FaultPoints : RotSorted(w, k, StatAll(fs, f, rot[w].names))
             /\ UNCHANGED liveDeleted
          \/ /\ missing
             /\ \E k \in FaultPoints : RotFailed(w, [Block(w, k) EXCEPT !.err = "ENOENT"], budget)
             /\ UNCHANGED liveDeleted
          \/ /\ ~missing
             /\ \E k \in FaultPoints : FsFault(w, k, "EIO")

\* filesToDelete.forEach(file => { fs.unlinkSync(file.path); logToFile(...) }),
\* one file per step
RotUnlink(w) ==
    /\ UNCHANGED browser
    /\ pc[w] = "rot_unlink"
    /\ LET r == run[w]
           file == rot[w].del[rot[w].i]
           id == file.name[4]
           p == [dir |-> TestFileLogsDir(r.file), name |-> file.name]
           last == rot[w].i = Len(rot[w].del)
       IN \/ /\ Exists(fs, p)
             /\ liveDeleted' = IF IsLiveRun(id) /\ id # r.id
                               THEN liveDeleted \cup {id} ELSE liveDeleted
             /\ \E k \in FaultPoints :
                 LET S0 == [Block(w, k) EXCEPT !.fs = Unlink(fs, p)]
                     S1 == LogToFile(S0, r, Now,
                               Call("INFO", <<"BIN_GLYPH", "Deleted", "old", "log", ":">>, <<id>>))
                     S2 == IF S1.err # NoErr THEN CleanupCatch(S1, r, Now) ELSE S1
                     result == IF S1.err # NoErr THEN "failed" ELSE IF last THEN "ok" ELSE "busy"
                 IN /\ Commit(w, S2, budget)
                    /\ Escape(w, S2, IF result = "busy" THEN "rot_unlink" ELSE "ba_rest")
                    /\ rot' = MarkRot(w, [rot[w] EXCEPT !.i = @ + 1,
                                             !.deleted = @ \cup {file.name},
                                             !.result = result,
                                             !.err = S1.err,
                                             !.left = IF result = "busy" THEN @ ELSE RunLogs(S2.fs, r)])
                    /\ rotDone' = (rotDone \/ result # "busy")
                    /\ UNCHANGED <<nextId, run, act, tests, acts, beIdx>>
          \/ /\ ~Exists(fs, p)
             /\ \E k \in FaultPoints : RotFailed(w, [Block(w, k) EXCEPT !.err = "ENOENT"], budget)
             /\ UNCHANGED liveDeleted
          \/ /\ Exists(fs, p)
             /\ \E k \in FaultPoints : FsFault(w, k, "EPERM")

BeforeAllSetup(w) ==
    /\ UNCHANGED browser
    /\ pc[w] = "ba_rest"
    /\ \E k \in FaultPoints :
        LET r == run[w]
            t == Now
            S1 == LogToFile(Block(w, k), r, t,
                      Call("SUMMARY", <<"ROCKET_GLYPH", "[BeforeAll]", "Starting", "suite", "setup">>, <<>>))
            S2 == IF BeforeAllTimed(r.file)
                  THEN LogToFile(S1, r, t, Starting("BeforeAll Setup"))
                  ELSE LogAll(S1, r, t,
                           <<Call("INFO", <<"TOOL_GLYPH", "Environment", "configuration", "loaded">>, <<>>),
                             Call("SUMMARY", <<OkGlyph, "[BeforeAll]", "suite", "setup", "completed">>, <<>>)>>)
        IN /\ Commit(w, S2, budget)
           /\ Escape(w, S2, IF BeforeAllTimed(r.file) THEN "ta_wait" ELSE "ready")
           /\ act' = [act EXCEPT ![w] = IF BeforeAllTimed(r.file) /\ S2.err = NoErr
                                        THEN Pending(w, S1, "BeforeAll Setup", "beforeAll", "ba_end")
                                        ELSE @]
           /\ rot' = MarkRot(w, rot[w])
           /\ UNCHANGED <<nextId, run, tests, acts, beIdx, liveDeleted, rotDone>>

BeforeAllEnd(w) ==
    /\ UNCHANGED browser
    /\ pc[w] = "ba_end"
    /\ \E k \in FaultPoints :
        LET r == run[w]
            t == Now
            S1 == IF r.file = "cart_feature"
                  THEN LogToFile(Block(w, k), r, t,
                           Call("INFO", <<"TOOL_GLYPH", "Authenticated", "session", "established">>, <<>>))
                  ELSE Block(w, k)
            S2 == LogToFile(S1, r, t,
                      Call("SUMMARY", <<OkGlyph, "[BeforeAll]", "suite", "setup", "completed">>, <<>>))
        IN /\ Commit(w, S2, budget)
           /\ Escape(w, S2, "ready")
           /\ rot' = MarkRot(w, rot[w])
           /\ UNCHANGED <<nextId, run, act, tests, acts, beIdx, liveDeleted, rotDone>>

\* --------------------------------------------------------------- timeAction
\* the lines the catch block of timeAction logs
ErrorBlock(ctx, d, error) ==
    <<Call("ERROR", <<FailGlyph, "FAILED", ":", ctx, "after">>, <<d>>),
      Call("ERROR", <<FailGlyph, "ERROR", "DETAILS", ":", error>>, <<>>),
      Call("ERROR", <<FailGlyph, "STACK", "TRACE", ":", error>>, <<>>)>>

\* variant: a new error is raised in place of the caught one
RethrowNew(error) == "Error"

\* throw error
Rethrow(error) == error

\* variant: timeAction returns or raises without a terminal line
TimeActionSettleUnlogged(S, r, t, a, o, d) ==
    [S |-> S, thrown |-> IF o = "ok" THEN NoErr ELSE Rethrow(o)]

\* variant: the COMPLETED line is written in a finally clause, after the
\* error block of a failed operation too
TimeActionSettleFinally(S, r, t, a, o, d) ==
    LET S1 == IF o = "ok" THEN S ELSE LogAll(S, r, t, ErrorBlock(a.ctx, d, o))
        S2 == LogToFile(S1, r, t, Call("SUCCESS", <<OkGlyph, "COMPLETED", ":", a.ctx>>, <<d>>))
    IN [S |-> Catch(S2),
        thrown |-> IF S2.err # NoErr THEN S2.err ELSE IF o = "ok" THEN NoErr ELSE Rethrow(o)]

\* the part of timeAction that runs once the awaited operation has settled
\* with outcome o ("ok" or the error it raised) after d milliseconds
TimeActionSettle(S, r, t, a, o, d) ==
    LET S0 == IF o = "ok" /\ a.ctx = "BeforeEach Cart Setup"
              THEN LogToFile(S, r, t, Call("INFO", <<"BAG_GLYPH", "Added", "to", "cart">>, <<>>))
              ELSE S
        S1 == LogToFile(S0, r, t, Call("SUCCESS", <<OkGlyph, "COMPLETED", ":", a.ctx>>, <<d>>))
        S2 == IF d > SlowThreshold
              THEN LET S3 == LogToFile(S1, r, t,
                                 Call("WARNING", <<WarnGlyph, "SLOW", "OPERATION", ":", a.ctx, "took">>, <<d>>))
                   IN IF HasSlowCounter(r.file) THEN Inc(S3, "slowOps") ELSE S3
              ELSE S1
        try == IF o = "ok" THEN S2 ELSE [S EXCEPT !.err = o]
        error == try.err
        catch == LogAll(Catch(try), r, t, ErrorBlock(a.ctx, d, error))
    IN IF error = NoErr
       THEN [S |-> try, thrown |-> NoErr]
       ELSE [S |-> Catch(catch), thrown |-> IF catch.err = NoErr THEN Rethrow(error) ELSE catch.err]

\* every wait of the operations timed under context ctx in suite f is given
\* a timeout option: isLoaded of the page objects and the navigation of the
\* checkout and sort hooks are; waitForLoadState('networkidle') in the cart
\* suite's beforeAll, goto('/inventory.html') in its beforeEach, and the
\* click() and selectOption() calls of addProductToCart, goToCart,
\* sortProducts and the other page-object methods test bodies call are not
ExplicitTimeout(f, ctx) ==
    CASE ctx \in {"BeforeAll Setup", "BeforeEach Navigation"} -> f # "cart_feature"
      [] ctx \in {"BeforeEach Verification", "BeforeEach Cart Verification",
                  "BeforeEach Setup"} -> TRUE
      [] OTHER -> FALSE

\* the operation of the pending timed action waits without a timeout of its
\* own for a condition that never becomes true, and nothing above the wait
\* cancels it
Hangs(w) == budget.hang /\ ~ExplicitTimeout(run[w].file, act[w].ctx)

TimeActionDone(w) ==
    /\ UNCHANGED browser
    /\ pc[w] = "ta_wait"
    /\ ~Hangs(w)
    /\ \E o \in {"ok"} \cup OpErrors, d \in Durations, k \in FaultPoints :
        /\ o # "ok" => budget.opFails > 0
        /\ d > SlowThreshold => budget.slow > 0
        /\ LET R == TimeActionSettle(Block(w, k), run[w], Now, act[w], o, d)
           IN /\ Commit(w, R.S, [budget EXCEPT !.opFails = IF o = "ok" THEN @ ELSE @ - 1,
                                                !.slow = IF d > SlowThreshold THEN @ - 1 ELSE @])
              /\ act' = [act EXCEPT ![w].status = IF R.thrown = NoErr THEN "returned" ELSE "raised",
                                    ![w].opErr = IF o = "ok" THEN NoErr ELSE o,
                                    ![w].thrown = R.thrown,
                                    ![w].dur = d]
              /\ pc' = [pc EXCEPT ![w] = IF R.thrown = NoErr THEN act[w].cont ELSE "ta_raised"]
              /\ rot' = MarkRot(w, rot[w])
              /\ UNCHANGED <<nextId, run, tests, acts, beIdx, escaped, liveDeleted, rotDone>>

\* a timed action of a hook raised: the hook fails with that error
HookRaise(w) ==
    /\ UNCHANGED browser
    /\ pc[w] = "ta_raised"
    /\ act[w].where \in {"beforeAll", "beforeEach"}
    /\ pc' = [pc EXCEPT ![w] = "teardown"]
    /\ escaped' = [escaped EXCEPT ![w] = act[w].thrown]
    /\ tests' = [tests EXCEPT ![w] = IF act[w].where = "beforeEach" THEN @ + 1 ELSE @]
    /\ UNCHANGED <<fs, nextId, budget, run, testStats, calls, rot, act,
                   acts, beIdx, liveDeleted, rotDone>>

\* a timed action of a test body raised: the catch block of the body runs
TestCatch(w) ==
    /\ UNCHANGED browser
    /\ pc[w] = "ta_raised"
    /\ act[w].where = "test"
    /\ \E k \in FaultPoints :
        LET S == TestCatchBlock(Block(w, k), run[w], Now, act[w].thrown)
        IN /\ Commit(w, Catch(S), budget)
           /\ pc' = [pc EXCEPT ![w] = "teardown"]
           /\ escaped' = [escaped EXCEPT ![w] = IF S.err = NoErr THEN act[w].thrown ELSE S.err]
           /\ tests' = [tests EXCEPT ![w] = @ + 1]
           /\ rot' = MarkRot(w, rot[w])
           /\ UNCHANGED <<nextId, run, act, acts, beIdx, liveDeleted, rotDone>>

\* --------------------------------------------------------------- beforeEach
BeforeEachContext(f, i) ==
    IF f = "checkout_feature"
    THEN <<"BeforeEach Navigation", "BeforeEach Verification", "BeforeEach Cart Setup",
           "BeforeEach Cart Navigation", "BeforeEach Cart Verification">>[i]
    ELSE IF f = "login_feature"
         THEN <<"BeforeEach Setup", "BeforeEach Navigation">>[i]
         ELSE <<"BeforeEach Navigation", "BeforeEach Verification">>[i]

BeforeEachBegin(w) ==
    /\ UNCHANGED browser
    /\ pc[w] = "ready"
    /\ tests[w] < budget.maxTests
    /\ \E k \in FaultPoints :
        LET r == run[w]
            t == Now
            S1 == LogToFile(Block(w, k), r, t,
                      Call("INFO", <<"CYCLE_GLYPH", "[BeforeEach]", "Starting", "individual", "test", "setup">>, <<>>))
            S2 == LogToFile(S1, r, t, Starting(BeforeEachContext(r.file, 1)))
        IN /\ Commit(w, S2, budget)
           /\ Escape(w, S2, "ta_wait")
           /\ act' = [act EXCEPT ![w] = IF S2.err = NoErr
                                        THEN Pending(w, S1, BeforeEachContext(r.file, 1), "beforeEach", "be_next")
                                        ELSE @]
           /\ beIdx' = [beIdx EXCEPT ![w] = 1]
           /\ tests' = [tests EXCEPT ![w] = IF S2.err = NoErr THEN @ ELSE @ + 1]
           /\ rot' = MarkRot(w, rot[w])
           /\ UNCHANGED <<nextId, run, acts, liveDeleted, rotDone>>

BeforeEachNext(w) ==
    /\ UNCHANGED browser
    /\ pc[w] = "be_next"
    /\ \E k \in FaultPoints :
        LET r == run[w]
            t == Now
            more == beIdx[w] < NumBeforeEach(r.file)
            ctx == BeforeEachContext(r.file, beIdx[w] + 1)
            S1 == IF more
                  THEN LogToFile(Block(w, k), r, t, Starting(ctx))
                  ELSE LogToFile(Block(w, k), r, t,
                           Call("INFO", <<OkGlyph, "[BeforeEach]", "Individual", "test", "setup", "completed">>, <<>>))
        IN /\ Commit(w, S1, budget)
           /\ Escape(w, S1, IF more THEN "ta_wait" ELSE "body_start")
           /\ act' = [act EXCEPT ![w] = IF more /\ S1.err = NoErr
                                        THEN Pending(w, Block(w, k), ctx, "beforeEach", "be_next")
                                        ELSE @]
           /\ beIdx' = [beIdx EXCEPT ![w] = IF more THEN @ + 1 ELSE @]
           /\ tests' = [tests EXCEPT ![w] = IF S1.err = NoErr THEN @ ELSE @ + 1]
           /\ rot' = MarkRot(w, rot[w])
           /\ UNCHANGED <<nextId, run, acts, liveDeleted, rotDone>>

\* ---------------------------------------------------------------- test body
\* A test body: the TEST START line and the test's category counter, then, in
\* a try block, timed actions and a final expectation; the catch block counts
\* the failure, logs it and raises it again.
TestBegin(w) ==
    /\ UNCHANGED browser
    /\ pc[w] = "body_start"
    /\ \E k \in FaultPoints :
        LET r == run[w]
            t == Now
            S1 == LogToFile(Block(w, k), r, t,
                      Call("SUMMARY", <<"TEST_GLYPH", "TEST", "START", ":", r.file>>, <<>>))
            S2 == IF HasCategory(r.file) THEN Inc(S1, "category") ELSE S1
            S3 == LogToFile(S2, r, t, Call("INFO", <<"BOX_GLYPH", "Testing">>, <<>>))
            try == LogToFile(S3, r, t, Starting("Test"))
            catch == TestCatchBlock(try, r, t, try.err)
            inTry == S2.err = NoErr /\ try.err # NoErr
            S == IF inTry THEN Catch(catch) ELSE Catch(try)
            thrown == IF inTry THEN (IF catch.err = NoErr THEN try.err ELSE catch.err) ELSE try.err
        IN /\ Commit(w, S, budget)
           /\ pc' = [pc EXCEPT ![w] = IF thrown = NoErr THEN "ta_wait" ELSE "teardown"]
           /\ escaped' = [escaped EXCEPT ![w] = IF thrown = NoErr THEN @ ELSE thrown]
           /\ act' = [act EXCEPT ![w] = IF thrown = NoErr
                                        THEN Pending(w, S3, "Test", "test", "body")
                                        ELSE @]
           /\ acts' = [acts EXCEPT ![w] = 1]
           /\ tests' = [tests EXCEPT ![w] = IF thrown = NoErr THEN @ ELSE @ + 1]
           /\ rot' = MarkRot(w, rot[w])
           /\ UNCHANGED <<nextId, run, beIdx, liveDeleted, rotDone>>

\* after a timed action of the body returned: the next timed action, or the
\* final expectation, which passes or raises
BodyNext(w) ==
    /\ UNCHANGED browser
    /\ pc[w] = "body"
    /\ \E k \in FaultPoints, step \in {"action", "pass", "fail"} :
        /\ step = "action" => acts[w] < budget.maxActions
        /\ step = "fail" => budget.opFails > 0
        /\ LET r == run[w]
               t == Now
               try == CASE step = "action" -> LogToFile(Block(w, k), r, t, Starting("Test"))
                        [] step = "pass" ->
                             LogToFile(Inc(Block(w, k), "passed"), r, t,
                                 Call("SUMMARY", <<OkGlyph, "TEST", "COMPLETED", ":", r.file>>, <<>>))
                        [] OTHER -> [Block(w, k) EXCEPT !.err = "AssertionError"]
               catch == TestCatchBlock(try, r, t, try.err)
               S == IF try.err = NoErr THEN try ELSE Catch(catch)
               thrown == IF try.err = NoErr THEN NoErr
                         ELSE IF catch.err = NoErr THEN try.err ELSE catch.err
           IN /\ Commit(w, S, [budget EXCEPT !.opFails = IF step = "fail" THEN @ - 1 ELSE @])
              /\ pc' = [pc EXCEPT ![w] = IF thrown # NoErr THEN "teardown"
                                         ELSE IF step = "action" THEN "ta_wait" ELSE "ready"]
              /\ escaped' = [escaped EXCEPT ![w] = IF thrown = NoErr THEN @ ELSE thrown]
              /\ act' = [act EXCEPT ![w] = IF thrown = NoErr /\ step = "action"
                                           THEN Pending(w, Block(w, k), "Test", "test", "body")
                                           ELSE @]
              /\ acts' = [acts EXCEPT ![w] = IF step = "action" THEN @ + 1 ELSE @]
              /\ tests' = [tests EXCEPT ![w] = IF thrown = NoErr /\ step = "action" THEN @ ELSE @ + 1]
              /\ rot' = MarkRot(w, rot[w])
              /\ UNCHANGED <<nextId, run, beIdx, liveDeleted, rotDone>>

\* ----------------------------------------------------------------- afterAll
FinalLine(r, st, d) ==
    [lvl |-> "-", run |-> 0, file |-> r.file,
     msg |-> <<"COMPLETED", "-", "Passed", "Failed">>
             \o (IF HasCategory(r.file) THEN <<"Category">> ELSE <<>>)
             \o <<"Duration">>,
     val |-> <<st.passed, st.failed>>
             \o (IF HasCategory(r.file) THEN <<st.category>> ELSE <<>>)
             \o <<d>>]

AfterAll(w) ==
    /\ UNCHANGED browser
    /\ \/ pc[w] = "ready" /\ tests[w] > 0
       \/ pc[w] = "teardown"
    /\ ~browser[w].live
    /\ \E d \in Durations, k \in FaultPoints :
        LET r == run[w]
            t == Now
            S1 == LogTestStatistics(Block(w, k), r, t, <<d>>)
            S2 == IF StatisticsCalls(r.file) = 2 THEN LogTestStatistics(S1, r, t, <<>>) ELSE S1
            S3 == LogAll(S2, r, t,
                      <<Call("CRITICAL", <<"FLAG_GLYPH", "TEST", "SUITE", "COMPLETED">>, <<>>),
                        Call("SUMMARY", <<"FOLDER_GLYPH", "Detailed", "logs", "saved", "to">>, <<r.id>>),
                        Call("SUMMARY", <<"LIST_GLYPH", "Test", "file", "summary">>, <<>>),
                        Call("SUMMARY", <<"STATS_GLYPH", "Master", "summary">>, <<>>)>>)
            S4 == DoAppend(S3, MasterSummaryPath, FinalLine(r, S3.st, d), t)
        IN /\ Commit(w, Catch(S4), budget)
           /\ pc' = [pc EXCEPT ![w] = "done"]
           /\ escaped' = [escaped EXCEPT ![w] = IF S4.err = NoErr THEN @ ELSE S4.err]
           /\ rot' = MarkRot(w, rot[w])
           /\ UNCHANGED <<nextId, run, act, tests, acts, beIdx, liveDeleted, rotDone>>

\* ---------------------------------------------------------------- browser
\* The fixtures of tests/fixtures.ts and the page objects the cart and
\* checkout suites drive.  The shop keeps the cart in the storage of the
\* browser context, so all pages of one context show the same cart; the one
\* button of an inventory item puts the product into the cart when it is not
\* there and takes it out when it is.
Backpack == "Sauce Labs Backpack"
BikeLight == "Sauce Labs Bike Light"
BoltTShirt == "Sauce Labs Bolt T-Shirt"
FleeceJacket == "Sauce Labs Fleece Jacket"
Products == {Backpack, BikeLight, BoltTShirt, FleeceJacket}

\* process.env.PRODUCT_NAME_TEST
ProductNameTest == Backpack

\* the browser of a worker whose fixtures are not followed, and of one that
\* has not yet set up a fixture
Untracked ==
    [context |-> "untracked", logins |-> 0, made |-> 0, open |-> {}, given |-> {},
     cart |-> {}, last |-> 0, test |-> 0, live |-> FALSE, result |-> "none", adds |-> {},
     read |-> [done |-> FALSE, fault |-> "none", cart |-> {}, thrown |-> NoErr, value |-> 0]]
NoBrowser == [Untracked EXCEPT !.context = "none"]

\* browser.newContext(): empty storage
NewContext(b) == [b EXCEPT !.context = "open", !.cart = {}]

\* loginPage.goto(); loginPage.login(...)
Login(b) == [b EXCEPT !.logins = @ + 1]

\* context.newPage()
NewPage(b) == [b EXCEPT !.made = @ + 1, !.open = @ \cup {b.made + 1}]

\* variant: the page is left open
ClosePageNever(b) == b

\* await newPage.close()
ClosePage(b) == [b EXCEPT !.open = @ \ {b.made}]

\* context.close()
CloseContext(b) == [b EXCEPT !.context = "closed", !.open = {}]

\* productItem.locator('button').click()
Click(cart, p) == IF p \in cart THEN cart \ {p} ELSE cart \cup {p}

\* InventoryPage.getCartCount: the badge, absent for an empty cart
GetCartCount(cart) == Cardinality(cart)

\* the text of the cart badge, which the shop shows while the cart is not
\* empty: the number of products in decimal digits
Digits == <<"0", "1", "2", "3", "4", "5", "6", "7", "8", "9">>
RECURSIVE BadgeText(_)
BadgeText(n) ==
    IF n < 10 THEN <<Digits[n + 1]>> ELSE BadgeText(n \div 10) \o <<Digits[(n % 10) + 1]>>

\* parseInt(text): the number the leading decimal digits of the text denote,
\* NaN when the text starts with none
RECURSIVE ParseDigits(_, _)
ParseDigits(text, n) ==
    IF text = <<>> \/ ~(\E d \in 1..10 : Digits[d] = Head(text)) THEN n
    ELSE ParseDigits(Tail(text), 10 * n + (CHOOSE d \in 0..9 : Digits[d + 1] = Head(text)))
ParseInt(text) ==
    IF text = <<>> \/ ~(\E d \in 1..10 : Digits[d] = Head(text)) THEN "NaN"
    ELSE ParseDigits(text, 0)

\* what can go wrong when the badge is read: isVisible() rejects,
\* textContent() rejects (timeout, element detached), or it resolves to null
ReadFaults == {"none", "isVisible", "textContent", "null"}

\* variant: textContent is awaited outside the try block
GetCartCountUncaught(cart, fault) ==
    IF fault = "isVisible" \/ cart = {} THEN [thrown |-> NoErr, value |-> 0]
    ELSE IF fault = "textContent" THEN [thrown |-> "TimeoutError", value |-> 0]
    ELSE [thrown |-> NoErr, value |-> IF fault = "null" THEN 0 ELSE ParseInt(BadgeText(Cardinality(cart)))]

\* InventoryPage.getCartCount when reading the badge can go wrong
GetCartCountRead(cart, fault) ==
    LET isVisible == IF fault = "isVisible" THEN FALSE ELSE cart # {}
        text == IF fault = "null" THEN <<>> ELSE BadgeText(Cardinality(cart))
    IN IF ~isVisible THEN [thrown |-> NoErr, value |-> 0]
       ELSE IF fault = "textContent" THEN [thrown |-> NoErr, value |-> 0]
       ELSE [thrown |-> NoErr, value |-> IF text # <<>> THEN ParseInt(text) ELSE 0]

\* the state a page object works on: the cart, the count a test saved, the
\* error raised, and the addProductToCart calls observed so far
PageState(b) == [cart |-> b.cart, reg |-> 0, err |-> NoErr, adds |-> b.adds]

\* InventoryPage.addProductToCart
AddProductToCart(B, p) ==
    LET after == Click(B.cart, p)
    IN [B EXCEPT !.cart = after,
                 !.adds = @ \cup {[p |-> p, before |-> GetCartCount(B.cart),
                                   after |-> GetCartCount(after)]}]

\* InventoryPage.removeProductFromCart
RemoveProductFromCart(B, p) == [B EXCEPT !.cart = Click(B.cart, p)]

RECURSIVE AddAll(_, _)
AddAll(B, ps) == IF ps = <<>> THEN B ELSE AddAll(AddProductToCart(B, Head(ps)), Tail(ps))

Range(s) == {s[i] : i \in 1..Len(s)}

\* one statement of a hook or a test: a timed action (ctx is its context), a
\* logged line, or an expectation
Do(ctx, op, ps) == [op |-> op, ps |-> ps, n |-> 0, ctx |-> ctx, msg |-> <<>>]
DoNote(ctx, op, ps, msg) == [op |-> op, ps |-> ps, n |-> 0, ctx |-> ctx, msg |-> msg]
Go(ctx) == Do(ctx, "go", <<>>)
Say(msg) == [op |-> "log", ps |-> <<>>, n |-> 0, ctx |-> "-", msg |-> msg]
SayCount(msg) == [op |-> "logCount", ps |-> <<>>, n |-> 0, ctx |-> "-", msg |-> msg]
SayExpected(msg, d) == [op |-> "logExpected", ps |-> <<>>, n |-> d, ctx |-> "-", msg |-> msg]
Check(op, n) == [op |-> op, ps |-> <<>>, n |-> n, ctx |-> "-", msg |-> <<>>]
Times(s, n) == [i \in 1..n |-> s]

\* what a statement does to the page
ApplyStep(B, s) ==
    CASE s.op = "add" -> AddAll(B, s.ps)
      [] s.op = "remove" -> RemoveProductFromCart(B, s.ps[1])
      [] s.op = "save" -> [B EXCEPT !.reg = GetCartCount(B.cart)]
      [] s.op = "expectDelta" ->
           [B EXCEPT !.err = IF GetCartCount(B.cart) = B.reg + s.n THEN NoErr ELSE "AssertionError"]
      [] s.op = "expectCount" ->
           [B EXCEPT !.err = IF GetCartCount(B.cart) = s.n THEN NoErr ELSE "AssertionError"]
      [] s.op = "exists" ->
           [B EXCEPT !.err = IF Range(s.ps) \subseteq B.cart THEN NoErr ELSE "AssertionError"]
      [] s.op = "absent" ->
           [B EXCEPT !.err = IF Range(s.ps) \cap B.cart = {} THEN NoErr ELSE "AssertionError"]
      [] s.op = "removeItem" ->
           IF s.ps[1] \in B.cart THEN [B EXCEPT !.cart = @ \ {s.ps[1]}]
           ELSE [B EXCEPT !.err = "TimeoutError"]
      [] s.op = "finish" -> [B EXCEPT !.cart = {}]
      [] OTHER -> B

\* a statement inside timeAction: the STARTING line, the lines the callback
\* logs, and the COMPLETED or FAILED line; B1 is the page after the statement
TimedStep(S, B1, r, t, s) ==
    CHOOSE out \in
        {[R.S EXCEPT !.err = R.thrown] :
            R \in {TimeActionSettle(S0, r, t, [ctx |-> s.ctx],
                                    IF B1.err = NoErr THEN "ok" ELSE B1.err, SlowThreshold) :
                S0 \in {LogAll(S1, r, t,
                               [i \in 1..(IF s.msg = <<>> THEN 0
                                          ELSE IF s.ps = <<>> THEN 1 ELSE Len(s.ps)) |->
                                   Call("INFO", s.msg, <<>>)]) :
                    S1 \in {LogToFile(S, r, t, Starting(s.ctx))}}}} : TRUE

\* one statement: S takes its log lines, B its effects on the page
RunStep(S, B, r, t, s) ==
    CHOOSE out \in
        {[S |-> CASE s.op = "log" -> LogToFile(S, r, t, Call("INFO", s.msg, <<>>))
                  [] s.op = "logCount" ->
                       LogToFile(S, r, t, Call("INFO", s.msg, <<GetCartCount(B.cart)>>))
                  [] s.op = "logExpected" ->
                       LogToFile(S, r, t, Call("INFO", s.msg, <<B.reg + s.n>>))
                  [] s.ctx # "-" -> TimedStep(S, B1, r, t, s)
                  [] OTHER -> [S EXCEPT !.err = B1.err],
          B |-> B1] : B1 \in {ApplyStep(B, s)}} : TRUE

\* the statements of a hook or a test body in order, up to the first that
\* raises
RECURSIVE RunSteps(_, _, _, _, _)
RunSteps(S, B, r, t, steps) ==
    IF steps = <<>> \/ S.err # NoErr THEN [S |-> S, B |-> B]
    ELSE CHOOSE out \in {RunSteps(n.S, n.B, r, t, Tail(steps)) :
                            n \in {RunStep(S, B, r, t, Head(steps))}} : TRUE

\* the effects alone
RECURSIVE PlaySteps(_, _)
PlaySteps(B, steps) ==
    IF steps = <<>> \/ B.err # NoErr THEN B
    ELSE CHOOSE out \in {PlaySteps(n, Tail(steps)) : n \in {ApplyStep(B, Head(steps))}} : TRUE

NumTests(f) == IF f = "cart_feature" THEN 5 ELSE 7

BeforeEachSteps(f) ==
    <<Say(<<"CYCLE_GLYPH", "[BeforeEach]", "Starting", "individual", "test", "setup">>),
      Go("BeforeEach Navigation"),
      Go("BeforeEach Verification")>>
    \o (IF f = "checkout_feature"
        THEN <<Do("BeforeEach Cart Setup", "add", <<ProductNameTest>>),
               Go("BeforeEach Cart Navigation"),
               Go("BeforeEach Cart Verification"),
               Say(<<OkGlyph, "[BeforeEach]", "Individual", "test", "setup", "completed",
                     "-", "Ready", "for", "checkout">>)>>
        ELSE <<Say(<<OkGlyph, "[BeforeEach]", "Individual", "test", "setup", "completed",
                     "-", "Cart", "state", "reset">>)>>)

\* the cart the last line of beforeEach announces
Announced(f) == IF f = "checkout_feature" THEN {ProductNameTest} ELSE {}

CartTestName(i) ==
    <<"Add single item to cart", "Remove item from inventory page",
      "Add multiple items to cart", "Remove item from cart page",
      "Continue shopping navigation">>[i]

CartTestSteps(i) ==
    CASE i = 1 ->
           <<Say(<<"BOX_GLYPH", "Testing", "product">>),
             Do("Add Item Test", "save", <<>>),
             SayCount(<<"Initial", "cart", "count">>),
             Do("Add Item Test", "add", <<Backpack>>),
             Go("Add Item Test"),
             SayCount(<<"New", "cart", "count">>),
             SayExpected(<<"Expected", "count">>, 1),
             Check("expectDelta", 1)>>
      [] i = 2 ->
           <<Say(<<"BOX_GLYPH", "Testing", "product", "removal">>),
             Do("Remove Item Test", "add", <<BikeLight>>),
             Do("Remove Item Test", "save", <<>>),
             SayCount(<<"Cart", "count", "after", "adding">>),
             Do("Remove Item Test", "remove", <<BikeLight>>),
             Go("Remove Item Test"),
             SayCount(<<"Final", "cart", "count">>),
             SayExpected(<<"Expected", "count">>, -1),
             Check("expectDelta", -1)>>
      [] i = 3 ->
           <<Say(<<"BOX_GLYPH", "Testing", "multiple", "products">>),
             Say(<<"Expected", "final", "count">>),
             DoNote("Multi-Item Test", "add", <<Backpack, BikeLight, BoltTShirt>>,
                    <<"Adding", "product">>),
             Go("Multi-Item Test"),
             SayCount(<<"Final", "cart", "count">>),
             Check("expectCount", 3),
             Go("Multi-Item Test"),
             Go("Multi-Item Test"),
             Go("Multi-Item Test"),
             SayCount(<<"Cart", "page", "items", "count">>),
             Check("expectCount", 3),
             DoNote("Multi-Item Test", "exists", <<Backpack, BikeLight, BoltTShirt>>,
                    <<"Verifying", "product", "exists">>)>>
      [] i = 4 ->
           <<Say(<<"BOX_GLYPH", "Testing", "product", "removal", "from", "cart">>),
             Do("Cart Remove Test", "add", <<FleeceJacket>>),
             Go("Cart Remove Test"),
             Go("Cart Remove Test"),
             Do("Cart Remove Test", "exists", <<FleeceJacket>>),
             Do("Cart Remove Test", "save", <<>>),
             SayCount(<<"Initial", "cart", "items", "count">>),
             Do("Cart Remove Test", "removeItem", <<FleeceJacket>>),
             Go("Cart Remove Test"),
             SayCount(<<"Final", "cart", "items", "count">>),
             SayExpected(<<"Expected", "count">>, -1),
             Check("expectDelta", -1),
             Do("Cart Remove Test", "absent", <<FleeceJacket>>)>>
      [] OTHER ->
           Times(Go("Continue Shopping Test"), 4)
           \o <<Say(<<"CYCLE_GLYPH", "Successfully", "navigated", "back", "to", "inventory", "page">>)>>

CheckoutTestName(i) ==
    <<"Complete checkout flow", "Finish button checkout flow",
      "First name validation error", "Last name validation error",
      "Postal code validation error", "Checkout cancellation flow",
      "Order summary calculations">>[i]

ValidationSteps(ctx) ==
    Times(Go(ctx), 2)
    \o <<Say(<<"Testing", "with", "missing", "field">>)>>
    \o Times(Go(ctx), 2)
    \o <<Say(<<"Expected", "validation", "error">>), Go(ctx)>>

CheckoutTestSteps(i) ==
    CASE i = 1 ->
           Times(Go("Complete Checkout Test"), 2)
           \o <<Say(<<"Filling", "shipping", "info">>)>>
           \o Times(Go("Complete Checkout Test"), 3)
           \o <<Do("Cart Remove Test", "exists", <<ProductNameTest>>),
                Do("Complete Checkout Test", "finish", <<>>)>>
           \o Times(Go("Complete Checkout Test"), 5)
           \o <<SayCount(<<"Final", "cart", "count">>),
                SayCount(<<"Cart", "emptied">>),
                Check("expectCount", 0)>>
      [] i = 2 ->
           Times(Go("Finish Button Test"), 2)
           \o <<Say(<<"Filling", "shipping", "info">>)>>
           \o Times(Go("Finish Button Test"), 4)
           \o Times(Say(<<"Pre-finish", "Order", "Summary">>), 4)
           \o <<Do("Finish Button Test", "finish", <<>>)>>
           \o Times(Go("Finish Button Test"), 3)
           \o <<Say(<<"Completion", "page", "URL">>)>>
           \o Times(Go("Finish Button Test"), 3)
           \o <<Say(<<"Home", "page", "URL">>),
                Go("Finish Button Test"),
                SayCount(<<"Final", "cart", "count", "after", "Finish">>),
                SayCount(<<"Cart", "properly", "emptied">>),
                Check("expectCount", 0),
                DoNote("Finish Button Test", "expectCount", <<>>,
                       <<"Products", "visible", "on", "home", "page">>)>>
      [] i \in {3, 4, 5} ->
           ValidationSteps(<<"First Name Validation Test", "Last Name Validation Test",
                             "Postal Code Validation Test">>[i - 2])
      [] i = 6 ->
           Times(Go("Cancel Checkout Test"), 2)
           \o <<Say(<<"CYCLE_GLYPH", "Initiating", "checkout", "cancellation">>)>>
           \o Times(Go("Cancel Checkout Test"), 2)
           \o <<Do("Cart Check Test after canceling checkout", "exists", <<ProductNameTest>>),
                Say(<<"Cancellation", "flow", "verification">>)>>
      [] OTHER ->
           Times(Go("Order Summary Test"), 2)
           \o <<DoNote("Order Summary Test", "add", <<FleeceJacket>>, <<"BAG_GLYPH", "Added", "to", "cart">>)>>
           \o Times(Go("Order Summary Test"), 8)
           \o Times(Say(<<"Order", "Summary", "Details">>), 4)
           \o Times(Say(<<"Calculation", "verification">>), 4)

TestName(f, i) == IF f = "cart_feature" THEN CartTestName(i) ELSE CheckoutTestName(i)
TestSteps(f, i) == IF f = "cart_feature" THEN CartTestSteps(i) ELSE CheckoutTestSteps(i)

\* what a test logs after its TEST COMPLETED line
Epilogue(f, i) ==
    IF f = "checkout_feature" /\ i = 2
    THEN <<Call("SUMMARY", <<"Flow", "Summary">>, <<>>)>>
    ELSE <<>>

\* sharedAuthenticatedPage up to use(page): one context and one login for the
\* worker, set up when its first hook or test asks for an authenticated page
WorkerFixtureSetup(w) ==
    /\ budget.browser
    /\ pc[w] = "loaded"
    /\ browser[w].context = "none"
    /\ browser' = [browser EXCEPT ![w] = Login(NewPage(NewContext(@)))]
    /\ UNCHANGED <<fs, nextId, budget, pc, run, testStats, calls, rot, act,
                   tests, acts, beIdx, escaped, liveDeleted, rotDone>>

\* authenticatedPage up to use(newPage), for beforeAll (i = 0) or for test i:
\* a new page of the shared context, handed over unless the navigation raises
TestFixtureSetup(w) ==
    /\ budget.browser
    /\ browser[w].context = "open"
    /\ ~browser[w].live
    /\ \E ok \in BOOLEAN, i \in 0..NumTests(run[w].file) :
        /\ \/ pc[w] = "loaded" /\ i = 0
           \/ pc[w] = "ready" /\ i > browser[w].last
        /\ LET b == NewPage(browser[w])
           IN browser' = [browser EXCEPT ![w] =
                             [b EXCEPT !.given = IF ok THEN @ \cup {b.made} ELSE @,
                                       !.test = i,
                                       !.live = ok,
                                       !.result = IF ok THEN "none" ELSE "failed"]]
        /\ pc' = [pc EXCEPT ![w] = IF ~ok THEN "teardown" ELSE IF i = 0 THEN "loaded" ELSE "fx_each"]
        /\ escaped' = [escaped EXCEPT ![w] = IF ok THEN @ ELSE "TimeoutError"]
        /\ tests' = [tests EXCEPT ![w] = IF ok \/ i = 0 THEN @ ELSE @ + 1]
        /\ UNCHANGED <<fs, nextId, budget, run, testStats, calls, rot, act,
                       acts, beIdx, liveDeleted, rotDone>>

\* the beforeEach hook of the cart or the checkout suite
BeforeEachHook(w) ==
    /\ pc[w] = "fx_each"
    /\ \E r \in {run[w]}, b \in {browser[w]}, t \in {Now} :
       \E R \in {RunSteps(Block(w, 0), PageState(b), r, t, steps) :
                    steps \in {BeforeEachSteps(r.file)}} :
          /\ Commit(w, Catch(R.S), budget)
          /\ pc' = [pc EXCEPT ![w] = IF R.S.err # NoErr THEN "fx_close" ELSE "fx_body"]
          /\ escaped' = [escaped EXCEPT ![w] = IF R.S.err # NoErr THEN R.S.err ELSE @]
          /\ browser' = [browser EXCEPT ![w] = [b EXCEPT !.cart = R.B.cart, !.adds = R.B.adds,
                                                         !.result = IF R.S.err # NoErr THEN "failed" ELSE @]]
          /\ tests' = [tests EXCEPT ![w] = IF R.S.err # NoErr THEN @ + 1 ELSE @]
          /\ rot' = MarkRot(w, rot[w])
          /\ UNCHANGED <<nextId, run, act, acts, beIdx, liveDeleted, rotDone>>

\* logToFile('TEST START: ...', 'SUMMARY') and the category counter
TestStart(S, r, t, name) ==
    CHOOSE out \in
        {IF HasCategory(r.file) THEN Inc(S1, "category") ELSE S1 :
            S1 \in {LogToFile(S, r, t,
                        Call("SUMMARY", <<"TEST_GLYPH", "TEST", "START", ":", name>>, <<>>))}} : TRUE

\* testStats.passed++ and the lines that end the try block
TestPassed(S, r, t, name, more) ==
    CHOOSE out \in
        {LogAll(S1, r, t,
                <<Call("SUMMARY", <<OkGlyph, "TEST", "COMPLETED", ":", name>>, <<>>)>> \o more) :
            S1 \in {Inc(S, "passed")}} : TRUE

\* a test body of the cart or the checkout suite: the TEST START line and the
\* category counter, then the try block and its catch block
TestBody(w) ==
    /\ pc[w] = "fx_body"
    /\ \E r \in {run[w]}, b \in {browser[w]}, t \in {Now} :
       \E name \in {TestName(r.file, b.test)} :
       \E R \in {RunSteps(S, PageState(b), r, t, steps) :
                    S \in {TestStart(Block(w, 0), r, t, name)},
                    steps \in {TestSteps(r.file, b.test)}} :
       \E S \in {IF R.S.err # NoErr THEN TestCatchBlock(R.S, r, t, R.S.err)
                 ELSE TestPassed(R.S, r, t, name, Epilogue(r.file, b.test))} :
          /\ Commit(w, S, budget)
          /\ pc' = [pc EXCEPT ![w] = "fx_close"]
          /\ escaped' = [escaped EXCEPT ![w] = IF R.S.err # NoErr THEN Rethrow(R.S.err) ELSE @]
          /\ browser' = [browser EXCEPT ![w] = [b EXCEPT !.cart = R.B.cart, !.adds = R.B.adds,
                                                         !.result = IF R.S.err # NoErr THEN "failed"
                                                                    ELSE "passed"]]
          /\ tests' = [tests EXCEPT ![w] = @ + 1]
          /\ rot' = MarkRot(w, rot[w])
          /\ UNCHANGED <<nextId, run, act, acts, beIdx, liveDeleted, rotDone>>

\* authenticatedPage after use(newPage): the page of the hook or of the test
\* is closed; after a failed test the runner shuts the worker down
TestFixtureTeardown(w) ==
    /\ budget.browser
    /\ browser[w].live
    /\ pc[w] \in {"fx_close", "ready"}
    /\ browser' = [browser EXCEPT ![w] = [ClosePage(@) EXCEPT !.last = browser[w].test,
                                                                !.test = 0, !.live = FALSE]]
    /\ pc' = [pc EXCEPT ![w] = IF browser[w].result = "failed" THEN "teardown" ELSE "ready"]
    /\ UNCHANGED <<fs, nextId, budget, run, testStats, calls, rot, act,
                   tests, acts, beIdx, escaped, liveDeleted, rotDone>>

\* a caller holding an authenticated page clicks the button of a product
PageClick(w) ==
    /\ browser[w].live
    /\ pc[w] = "loaded"
    /\ \E p \in Products :
          browser' = [browser EXCEPT ![w].cart = RemoveProductFromCart(PageState(browser[w]), p).cart]
    /\ UNCHANGED <<fs, nextId, budget, pc, run, testStats, calls, rot, act,
                   tests, acts, beIdx, escaped, liveDeleted, rotDone>>

\* a caller holding an authenticated page awaits getCartCount()
PageGetCartCount(w) ==
    /\ browser[w].live
    /\ pc[w] = "loaded"
    /\ \E fault \in ReadFaults :
        \E R \in {GetCartCountRead(browser[w].cart, fault)} :
          browser' = [browser EXCEPT ![w].read =
                         [done |-> TRUE, fault |-> fault, cart |-> browser[w].cart,
                          thrown |-> R.thrown, value |-> R.value]]
    /\ UNCHANGED <<fs, nextId, budget, pc, run, testStats, calls, rot, act,
                   tests, acts, beIdx, escaped, liveDeleted, rotDone>>

\* sharedAuthenticatedPage after use(page), when the worker shuts down
WorkerFixtureTeardown(w) ==
    /\ budget.browser
    /\ pc[w] = "done"
    /\ browser[w].context = "open"
    /\ browser' = [browser EXCEPT ![w] = CloseContext(@)]
    /\ UNCHANGED <<fs, nextId, budget, pc, run, testStats, calls, rot, act,
                   tests, acts, beIdx, escaped, liveDeleted, rotDone>>

\* ------------------------------------------------------------ specifications
OldRun(f, n) == [id |-> n, file |-> f]

\* the directory as earlier invocations left it: n old per-run logs with
\* increasing modification times (what those runs wrote is not followed)
OldFiles(f, n) ==
    [p \in {LogFilePath(OldRun(f, i)) : i \in 1..n}
           \cup (IF n > 0 THEN {SummaryLogPath(f), MasterSummaryPath} ELSE {}) |->
        IF p = SummaryLogPath(f)
        THEN [mtime |-> 0, lines |-> <<>>]
        ELSE IF p = MasterSummaryPath
        THEN [mtime |-> 0, lines |-> <<>>]
        ELSE [mtime |-> p.name[4], lines |-> <<>>]]

InitWith(active, f, n, B) ==
    /\ fs = OldFiles(f, n)
    /\ nextId = [w \in Workers |-> IF w = "chromium" THEN n + 1 ELSE n + 2]
    /\ budget = B
    /\ pc = [w \in Workers |-> IF w \in active THEN "idle" ELSE "off"]
    /\ run = [w \in Workers |-> [id |-> 0, file |-> f]]
    /\ testStats = [w \in Workers |-> NewStats]
    /\ calls = [w \in Workers |-> <<>>]
    /\ rot = [w \in Workers |-> NoRotation]
    /\ act = [w \in Workers |-> NoAction]
    /\ tests = [w \in Workers |-> 0]
    /\ acts = [w \in Workers |-> 0]
    /\ beIdx = [w \in Workers |-> 0]
    /\ escaped = [w \in Workers |-> NoErr]
    /\ liveDeleted = {}
    /\ rotDone = FALSE
    /\ browser = [w \in Workers |-> IF B.browser THEN NoBrowser ELSE Untracked]

\* concurrent workers of one feature on a directory with old logs
OldCounts == {0, MaxOld}

Budget(loads, fsFaults, appendFaults, opFails, slow, maxTests, content, shared) ==
    [loads |-> loads, hooked |-> [w \in Workers |-> 1],
     fsFaults |-> fsFaults, appendFaults |-> appendFaults,
     opFails |-> opFails, slow |-> slow,
     maxTests |-> maxTests, maxActions |-> MaxActions,
     content |-> content, shared |-> shared, browser |-> FALSE, hang |-> FALSE]

\* one worker executes one run of one of the four suites
Init ==
    \E f \in Features :
        InitWith({"chromium"}, f, MaxOld,
                 Budget([w \in Workers |-> 1], MaxFsFaults, 0, MaxOpFails, MaxSlow,
                        MaxTests, TRUE, TRUE))

\* the same, when an append to a log file can fail
InitFault ==
    \E f \in Features :
        InitWith({"chromium"}, f, MaxOld,
                 Budget([w \in Workers |-> 1], MaxFsFaults, MaxAppendFaults, MaxOpFails, 0,
                        MaxTests, TRUE, TRUE))

\* Two workers of one feature (the chromium and the firefox project) start
\* runs concurrently. Either the directory holds old logs and every worker
\* slot starts one run, or it is empty and the firefox slot is restarted up
\* to MaxCrowd times (one of its runs executes hooks) while the chromium slot
\* starts one run.
\* What the runs append to the shared summary files is not followed here.
InitStartup ==
    \/ \E n \in OldCounts \cup {KeepCount - 1} :
         InitWith(Workers, "cart_feature", n,
                  Budget([w \in Workers |-> 1], MaxFsFaults, 0, 0, 0,
                         MaxTests, FALSE, FALSE))
    \/ InitWith(Workers, "cart_feature", 0,
                Budget([w \in Workers |-> IF w = "firefox" THEN MaxCrowd ELSE 1], 0, 0, 0, 0,
                       MaxTests, TRUE, FALSE))

\* Two workers of one feature start one run each on a directory with old
\* logs; what they append to the shared summary files is followed.
InitShared ==
    InitWith(Workers, "cart_feature", MaxOld,
             Budget([w \in Workers |-> 1], 0, 0, 0, 0, MaxTests, TRUE, TRUE))

\* One worker executes one run of up to MaxPassed tests; file system calls and
\* appends succeed, operations are fast, and at most MaxOpFails of them raise.
InitStats ==
    \E f \in Features :
       InitWith({"chromium"}, f, MaxOld,
                Budget([w \in Workers |-> 1], 0, 0, MaxOpFails, 0, MaxPassed, TRUE, TRUE))

Step(w) ==
    \/ ModuleLoad(w)
    \/ SkipHooks(w)
    \/ BeforeAllBegin(w)
    \/ RotList(w)
    \/ RotStat(w)
    \/ RotUnlink(w)
    \/ BeforeAllSetup(w)
    \/ BeforeAllEnd(w)
    \/ TimeActionDone(w)
    \/ HookRaise(w)
    \/ TestCatch(w)
    \/ BeforeEachBegin(w)
    \/ BeforeEachNext(w)
    \/ TestBegin(w)
    \/ BodyNext(w)
    \/ AfterAll(w)

Next == \E w \in Workers : Step(w)

\* the steps of a run up to the first await of its beforeAll hook
StartupStep(w) ==
    \/ ModuleLoad(w)
    \/ SkipHooks(w)
    \/ BeforeAllBegin(w)
    \/ RotList(w)
    \/ RotStat(w)
    \/ RotUnlink(w)
    \/ BeforeAllSetup(w)

NextStartup == \E w \in Workers : StartupStep(w)

Spec == Init /\ [][Next]_vars
SpecFault == InitFault /\ [][Next]_vars
SpecStartup == InitStartup /\ [][NextStartup]_vars
SpecShared == InitShared /\ [][NextStartup]_vars
SpecStats == InitStats /\ [][Next]_vars

\* one worker executes a run of the cart, checkout or sort suite of up to
\* MaxPassed tests; appends succeed; in some runs the page never reaches the
\* state a wait without timeout waits for.  When the operation of a timed
\* action has settled, the event loop resumes the timeAction that awaits it.
InitWaits ==
    \E f \in {"cart_feature", "checkout_feature", "sort_feature"}, h \in BOOLEAN :
        InitWith({"chromium"}, f, MaxOld,
                 [Budget([w \in Workers |-> 1], 0, 0, MaxOpFails, 0, MaxPassed, TRUE, TRUE)
                    EXCEPT !.hang = h])

SpecWaits == InitWaits /\ [][Next]_vars /\ \A w \in Workers : WF_vars(TimeActionDone(w))

\* one worker executes tests of the cart or the checkout suite in the order
\* of the file, with the fixtures and the pages followed; nothing fails but
\* the navigation of a new page and the expectations of the tests
InitBrowser ==
    \E f \in {"cart_feature", "checkout_feature"} :
        InitWith({"chromium"}, f, MaxOld,
                 [Budget([w \in Workers |-> 1], 0, 0, 0, 0, MaxTests, TRUE, TRUE)
                    EXCEPT !.browser = TRUE])

BrowserStep(w) ==
    \/ ModuleLoad(w)
    \/ WorkerFixtureSetup(w)
    \/ TestFixtureSetup(w)
    \/ BeforeAllBegin(w)
    \/ RotList(w)
    \/ RotStat(w)
    \/ RotUnlink(w)
    \/ BeforeAllSetup(w)
    \/ TimeActionDone(w)
    \/ BeforeAllEnd(w)
    \/ BeforeEachHook(w)
    \/ TestBody(w)
    \/ TestFixtureTeardown(w)
    \/ AfterAll(w)
    \/ WorkerFixtureTeardown(w)

NextBrowser == \E w \in Workers : BrowserStep(w)

SpecBrowser == InitBrowser /\ [][NextBrowser]_vars

\* a worker with an authenticated page, on which product buttons are clicked
\* and the cart count is read in any order, every read with any fault
PageStep(w) ==
    \/ ModuleLoad(w)
    \/ WorkerFixtureSetup(w)
    \/ TestFixtureSetup(w)
    \/ PageClick(w)
    \/ PageGetCartCount(w)

NextPage == \E w \in Workers : PageStep(w)

SpecPage == InitBrowser /\ [][NextPage]_vars

\* ------------------------------------------------------------------ claims
Returned(w) == rot[w].result \in {"ok", "failed"}

\* the modification time cleanupOldLogs read for a file it listed
TimeOf(w, name) ==
    LET i == CHOOSE j \in 1..Len(rot[w].files) : rot[w].files[j].name = name
    IN rot[w].files[i].time

\* the names at the first KeepCount places of the sorted list
Newest(w) ==
    {rot[w].files[i].name :
        i \in 1..(IF Len(rot[w].files) < KeepCount THEN Len(rot[w].files) ELSE KeepCount)}

Listed(w) == {rot[w].names[i] : i \in 1..Len(rot[w].names)}

ErrorCalls(w, n) == {i \in (n + 1)..Len(calls[w]) : calls[w][i].lvl = "ERROR"}

\* C3: when the operation wrapped by timeAction raises, timeAction raises the
\* same error, after logging exactly one ERROR block: a FAILED line, an ERROR
\* DETAILS line and a STACK TRACE line, in that order.
C3_Rethrow ==
    \A w \in Workers :
        pc[w] = "ta_raised"
        => LET n == act[w].from
               c == calls[w]
           IN /\ act[w].opErr # NoErr
              /\ act[w].thrown = act[w].opErr
              /\ Len(c) = n + 4
              /\ ErrorCalls(w, n) = {n + 2, n + 3, n + 4}
              /\ Includes(c[n + 2].msg, <<"FAILED", ":", act[w].ctx>>)
              /\ Includes(c[n + 3].msg, <<"ERROR", "DETAILS", ":", act[w].opErr>>)
              /\ Includes(c[n + 4].msg, <<"STACK", "TRACE">>)

C3_Witness ==
    \E w \in Workers :
        /\ pc[w] = "ta_raised"
        /\ act[w].where = "test"
        /\ act[w].thrown \in OpErrors

\* the WARNING-level logToFile calls of w after the first n
WarningCalls(w, n) == {i \in (n + 1)..Len(calls[w]) : calls[w][i].lvl = "WARNING"}

\* C4, as stated, for the invocations whose operation succeeds: in every suite,
\* a timeAction invocation whose operation took more than 5000 ms increments
\* slowOps exactly once and logs exactly one WARNING line; one that took 5000
\* ms or less does neither.
C4_SlowOps ==
    \A w \in Workers :
        act[w].status = "returned"
        => LET slow == IF act[w].dur > SlowThreshold THEN 1 ELSE 0
           IN /\ testStats[w].slowOps = act[w].slowBefore + slow
              /\ Cardinality(WarningCalls(w, act[w].from)) = slow

InSummary(c) ==
    \/ c.lvl \in {"ERROR", "SUMMARY"}
    \/ Includes(c.msg, <<OkGlyph>>)
    \/ Includes(c.msg, <<FailGlyph>>)

InMaster(c) ==
    \/ c.lvl \in {"ERROR", "CRITICAL"}
    \/ Includes(c.msg, <<"TEST", "START">>)
    \/ Includes(c.msg, <<"COMPLETED">>)

\* C5: every logToFile call appends one line to the per-run log; it appends one
\* line to the feature summary exactly when the level is ERROR or SUMMARY or the
\* message contains one of the two glyphs; it appends one line to the global
\* summary exactly when the level is ERROR or CRITICAL or the message contains
\* "TEST START" or "COMPLETED".
C5_Routing ==
    \A w \in Workers :
        pc[w] \notin {"idle", "off"}
        => LET r == run[w]
               c == calls[w]
               toSummary == SelectSeq(c, InSummary)
               toMaster == SelectSeq(c, InMaster)
               Mine(l) == l.run = r.id
           IN /\ Len(LinesOf(fs, LogFilePath(r))) = 1 + Len(c)
              /\ SelectSeq(LinesOf(fs, SummaryLogPath(r.file)), Mine)
                   = [i \in 1..Len(toSummary) |->
                         SummaryEntry(r, toSummary[i].msg, toSummary[i].val)]
              /\ SelectSeq(LinesOf(fs, MasterSummaryPath), Mine)
                   = [i \in 1..Len(toMaster) |->
                         MasterEntry(r, toMaster[i].msg, toMaster[i].val)]

C5_Witness ==
    \E w \in Workers :
        /\ pc[w] = "done"
        /\ testStats[w].passed = 1
        /\ \E i \in 1..Len(calls[w]) : ~InSummary(calls[w][i]) /\ ~InMaster(calls[w][i])
        /\ \E i \in 1..Len(calls[w]) : calls[w][i].lvl = "INFO" /\ InSummary(calls[w][i])
        /\ \E i \in 1..Len(calls[w]) : calls[w][i].lvl = "CRITICAL"

\* C6, as stated: the lines of the per-run log of a run that has not finished
\* are its header followed by one line per logToFile call, in call order,
\* nothing dropped.
C6_Order ==
    \A w \in Workers :
        Live(w) /\ pc[w] # "off" /\ budget.content
        => LinesOf(fs, LogFilePath(run[w]))
             = <<InitLogHeader(run[w])>>
               \o [i \in 1..Len(calls[w]) |->
                      LogEntry(calls[w][i].lvl, calls[w][i].msg, calls[w][i].val)]

\* C7, as stated: no operation of a run, rotation included, deletes the
\* per-run log of another run that has not finished.
C7_Exclusive == liveDeleted = {}

\* C8, as stated: no failure of the logging code (an append, a listing, a stat,
\* a delete) reaches a hook or a test.
C8_Original ==
    \A w \in Workers : escaped[w] \notin ({AppendErr} \cup FsErrors)

\* C8, amended: a failure of a listing, a stat or a delete in the rotation never
\* reaches the hook, nor is it raised by timeAction; a failed append is not
\* absorbed: unless it happened in the try block of the rotation, where it ends
\* the rotation as a listing failure does, it is raised to the hook or test.
C8_Handled ==
    /\ \A w \in Workers :
          /\ escaped[w] \notin FsErrors
          /\ act[w].thrown \notin FsErrors
          /\ rot[w].err \in FsErrors => rot[w].result = "failed"
    /\ budget.appendFaults < MaxAppendFaults
       => \E w \in Workers :
             \/ escaped[w] = AppendErr
             \/ rot[w].err = AppendErr /\ rot[w].result = "failed"
             \/ pc[w] = "ta_raised" /\ act[w].thrown = AppendErr

C8_Witness ==
    \E w \in Workers :
        /\ rot[w].err \in FsErrors
        /\ escaped[w] = AppendErr
        /\ pc[w] = "done"

\* the lines logged for a failed rotation
CleanupWarnings(w) ==
    {i \in 1..Len(calls[w]) :
        calls[w][i].lvl = "WARNING" /\ Includes(calls[w][i].msg, <<"Failed", "to", "cleanup">>)}

\* C9: a failure inside the rotation is caught by it: exactly one WARNING line
\* is logged for it, nothing reaches the hook, and the next thing the beforeAll
\* hook does is log the start of the suite setup.
C9_RotationFailure ==
    \A w \in Workers :
        rot[w].result = "failed"
        => /\ rot[w].err \in FsErrors
           /\ pc[w] \notin {"loaded", "rot_list", "rot_stat", "rot_unlink"}
           /\ Cardinality(CleanupWarnings(w)) = 1
           /\ LET i == CHOOSE j \in CleanupWarnings(w) : TRUE
              IN /\ Includes(calls[w][i].msg, <<rot[w].err>>)
                 /\ IF pc[w] = "ba_rest"
                    THEN Len(calls[w]) = i /\ escaped[w] = NoErr
                    ELSE /\ Len(calls[w]) > i
                         /\ Includes(calls[w][i + 1].msg, <<"[BeforeAll]", "Starting", "suite", "setup">>)

C9_Witness ==
    \E w \in Workers :
        /\ rot[w].result = "failed"
        /\ rot[w].err = "EPERM"
        /\ rot[w].deleted # {}
        /\ pc[w] = "ready"

\* C10: a rotation that was called on, and listed, a directory holding 10
\* per-run logs or fewer deleted none, and the directory holds the same per-run
\* logs when it returns as when it was called (other runs leaving the
\* directory alone meanwhile).
C10_NoDelete ==
    \A w \in Workers :
        /\ Returned(w)
        /\ Cardinality(rot[w].before) <= KeepCount
        /\ Cardinality(Listed(w)) <= KeepCount
        => /\ rot[w].deleted = {}
           /\ ~rot[w].foreign => rot[w].left = rot[w].before

C10_Witness ==
    \E w \in Workers :
        /\ rot[w].result = "ok" /\ ~rot[w].foreign
        /\ Cardinality(rot[w].before) = KeepCount
        /\ rot[w].left = rot[w].before

\* the runs that have been started
Started == {w \in Workers : pc[w] \notin {"idle", "off"}}

\* the lines a run appends to the feature summary, in call order: the Run
\* Started line, then one line per qualifying logToFile call
SummaryWrites(w) ==
    LET q == SelectSeq(calls[w], InSummary)
    IN <<SummaryHeader(run[w])>>
       \o [i \in 1..Len(q) |-> SummaryEntry(run[w], q[i].msg, q[i].val)]

\* the same for the global summary (the final line of afterAll apart)
MasterWrites(w) ==
    LET q == SelectSeq(calls[w], InMaster)
    IN <<MasterHeader(run[w])>>
       \o [i \in 1..Len(q) |-> MasterEntry(run[w], q[i].msg, q[i].val)]

\* a line of a summary file that run id wrote
LineOf(l, id) == l.run = id \/ (l.run = 0 /\ l.val = <<id>>)

\* C11: under every interleaving of two workers appending to the feature
\* summary and the global summary, each file restricted to the lines of one
\* run is the sequence of that run's qualifying writes, in call order, and the
\* file holds no other line.
C11_Interleaving ==
    LET summary == LinesOf(fs, SummaryLogPath("cart_feature"))
        master == LinesOf(fs, MasterSummaryPath)
    IN /\ \A w \in Started :
            LET Mine(l) == LineOf(l, run[w].id)
            IN /\ SelectSeq(summary, Mine) = SummaryWrites(w)
               /\ SelectSeq(master, Mine) = MasterWrites(w)
       /\ \A i \in 1..Len(summary) : \E w \in Started : LineOf(summary[i], run[w].id)
       /\ \A i \in 1..Len(master) : \E w \in Started : LineOf(master[i], run[w].id)

\* the lines of two runs alternate in the feature summary
C11_Witness ==
    LET summary == LinesOf(fs, SummaryLogPath("cart_feature"))
    IN \E i \in 1..Len(summary), j \in 1..Len(summary), k \in 1..Len(summary) :
          /\ i < j /\ j < k
          /\ LineOf(summary[i], run["chromium"].id)
          /\ LineOf(summary[j], run["firefox"].id)
          /\ LineOf(summary[k], run["chromium"].id)
          /\ Started = Workers

\* the feature summaries and the global summary
SummaryPaths == {SummaryLogPath(f) : f \in Features} \cup {MasterSummaryPath}

IsPrefix(s, t) == Len(s) <= Len(t) /\ \A i \in 1..Len(s) : s[i] = t[i]

\* C12: the feature summary and the global summary are append-only: every
\* step of a run (module initialisation, logToFile, rotation, teardown) leaves
\* each summary file in place with its previous content as a prefix of its
\* new content.
C12_AppendOnly ==
    [][\A p \in SummaryPaths :
          p \in DOMAIN fs =>
             /\ p \in DOMAIN fs'
             /\ IsPrefix(fs[p].lines, fs'[p].lines)]_vars

\* a run that rotated old logs away and ran a test has been torn down, with
\* both summaries written
C12_Witness ==
    \E w \in Workers :
       /\ pc[w] = "done"
       /\ rot[w].deleted # {}
       /\ tests[w] > 0
       /\ Len(LinesOf(fs, SummaryLogPath(run[w].file))) > 1
       /\ Len(LinesOf(fs, MasterSummaryPath)) > 1

\* the suite's afterAll has run
TornDown(w) ==
    /\ pc[w] = "done"
    /\ \E i \in 1..Len(calls[w]) :
          calls[w][i].lvl = "CRITICAL" /\ Includes(calls[w][i].msg, <<"TEST", "SUITE", "COMPLETED">>)

\* the counters of a suite and the word that labels each in a log line
CounterLabel ==
    [passed |-> "Passed", failed |-> "Failed", warnings |-> "Warnings",
     slowOps |-> "Slow", category |-> "Category"]
Counters(f) ==
    {"passed", "failed", "warnings", "slowOps"}
    \cup (IF HasCategory(f) THEN {"category"} ELSE {})

\* some line of the file names the counter and carries its final value
Reports(lines, c, v) ==
    \E i \in 1..Len(lines) :
       /\ Includes(lines[i].msg, <<CounterLabel[c]>>)
       /\ \E j \in 1..Len(lines[i].val) : lines[i].val[j] = v
Names(lines, c) ==
    \E i \in 1..Len(lines) : Includes(lines[i].msg, <<CounterLabel[c]>>)

\* C13 as stated: after teardown every counter of the suite is reported with
\* its final value in the per-run log, in the feature summary and in the
\* global summary.
C13_Original ==
    \A w \in Workers :
       TornDown(w) =>
          \A c \in Counters(run[w].file) :
             /\ Reports(LinesOf(fs, LogFilePath(run[w])), c, testStats[w][c])
             /\ Reports(LinesOf(fs, SummaryLogPath(run[w].file)), c, testStats[w][c])
             /\ Reports(LinesOf(fs, MasterSummaryPath), c, testStats[w][c])

\* C13: after teardown every counter of the suite is reported with its final
\* value in the per-run log and in the feature summary; the global summary
\* reports the passed and failed counters and the feature-specific counter in
\* its last line, and names neither the warnings nor the slow operations.
C13_Tiers ==
    \A w \in Workers :
       TornDown(w) =>
          LET master == LinesOf(fs, MasterSummaryPath)
          IN /\ \A c \in Counters(run[w].file) :
                  /\ Reports(LinesOf(fs, LogFilePath(run[w])), c, testStats[w][c])
                  /\ Reports(LinesOf(fs, SummaryLogPath(run[w].file)), c, testStats[w][c])
             /\ master # <<>>
             /\ \A c \in Counters(run[w].file) \ {"warnings", "slowOps"} :
                  Reports(<<master[Len(master)]>>, c, testStats[w][c])
             /\ ~Names(master, "warnings")
             /\ ~Names(master, "slowOps")

\* a torn down run of a suite with a feature counter that passed a test and
\* counted a slow operation
C13_Witness ==
    \E w \in Workers :
       /\ TornDown(w)
       /\ HasCategory(run[w].file)
       /\ testStats[w].passed > 0
       /\ testStats[w].slowOps > 0
       /\ testStats[w].category > 0

\* the tests of a run whose timed actions all returned and whose body reached
\* its passed-increment: each logs one TEST COMPLETED line right after it
PassedTests(w) ==
    Cardinality({i \in 1..Len(calls[w]) :
                    Includes(calls[w][i].msg, <<OkGlyph, "TEST", "COMPLETED">>)})

\* the values the lines with this text carry in a file
ValuesOf(lines, text) ==
    {lines[i].val : i \in {j \in 1..Len(lines) : lines[j].msg = text}}

\* C14: a run starts from passed = 0; after k tests whose timed actions
\* succeeded were each followed by one passed-increment, teardown writes the
\* line "Tests Passed: k" to the per-run log and to the feature summary, and
\* "Passed: k" in the last line of the global summary.
C14_PassedCount ==
    \A w \in Workers :
       TornDown(w) =>
          LET k == PassedTests(w)
              text == <<OkGlyph, "Tests", "Passed", ":">>
              master == LinesOf(fs, MasterSummaryPath)
          IN /\ testStats[w].passed = k
             /\ ValuesOf(LinesOf(fs, SummaryLogPath(run[w].file)), text) = {<<k>>}
             /\ ValuesOf(LinesOf(fs, LogFilePath(run[w])), text) = {<<k>>}
             /\ master # <<>>
             /\ Includes(master[Len(master)].msg, <<"COMPLETED", "-", "Passed">>)
             /\ master[Len(master)].val[1] = k

\* the scenario k = 3: three tests passed and the run was torn down
C14_Witness ==
    \E w \in Workers :
       /\ TornDown(w)
       /\ PassedTests(w) = 3
       /\ testStats[w].failed = 0

\* a test body is being executed: it has started and has not yet ended
InBody(w) ==
    \/ pc[w] = "body"
    \/ pc[w] \in {"ta_wait", "ta_raised"} /\ act[w].where = "test"

\* the test bodies of a run that an error escaped from: each logs one TEST
\* FAILED line in its catch block
FailedTests(w) ==
    Cardinality({i \in 1..Len(calls[w]) :
                    /\ calls[w][i].lvl = "ERROR"
                    /\ Includes(calls[w][i].msg, <<FailGlyph, "TEST", "FAILED">>)})

\* the test bodies of a run that have been entered (each logs one TEST START
\* line first), and those that have ended
EnteredTests(w) ==
    Cardinality({i \in 1..Len(calls[w]) : Includes(calls[w][i].msg, <<"TEST", "START">>)})
EndedTests(w) == EnteredTests(w) - (IF InBody(w) THEN 1 ELSE 0)

\* what the counters of a run must read
CountersAgree(w) ==
    /\ testStats[w].passed = PassedTests(w)
    /\ testStats[w].failed = FailedTests(w)
    /\ testStats[w].passed + testStats[w].failed = EndedTests(w)
    /\ HasCategory(run[w].file) => testStats[w].category = EnteredTests(w)

\* one step moves no counter down, moves passed or failed by one for the test
\* body that ends with it and otherwise not at all, and moves the feature
\* counter by one for the test body that is entered with it
CountersStep(w) ==
    LET old == testStats[w]
        new == testStats'[w]
        ended == EndedTests(w)' - EndedTests(w)
    IN pc[w] # "idle" =>
          /\ new.passed >= old.passed /\ new.failed >= old.failed
          /\ new.warnings >= old.warnings /\ new.slowOps >= old.slowOps
          /\ new.category >= old.category
          /\ ended \in {0, 1}
          /\ (new.passed - old.passed) + (new.failed - old.failed) = ended
          /\ new.passed > old.passed <=> ended = 1 /\ escaped'[w] = NoErr
          /\ new.failed > old.failed <=> ended = 1 /\ escaped'[w] # NoErr
          /\ HasCategory(run[w].file) =>
                new.category - old.category = (IF pc[w] = "body_start" THEN 1 ELSE 0)

\* C15: every executed test body moves exactly one of passed and failed, by
\* exactly one: passed when the body reaches its end, failed when an error
\* escapes it; no counter ever decreases; in the cart, checkout and login
\* suites the feature counter moves by one per executed test body.
C15_Counting ==
    /\ [](\A w \in Workers : CountersAgree(w))
    /\ [][\A w \in Workers : CountersStep(w)]_vars

\* two test bodies passed and a third one failed
C15_Witness ==
    \E w \in Workers :
       /\ HasCategory(run[w].file)
       /\ pc[w] = "teardown"
       /\ testStats[w].passed = 2
       /\ testStats[w].failed = 1
       /\ testStats[w].category = 3

\* a line is in a file
Holds(lines, l) == \E i \in 1..Len(lines) : lines[i] = l

\* some header of the run has been written: the header of its per-run log or
\* its Run Started line in the feature summary or in the global summary
HeaderWritten(w) ==
    /\ w \in Started
    /\ \/ Holds(LinesOf(fs, LogFilePath(run[w])), InitLogHeader(run[w]))
       \/ Holds(LinesOf(fs, SummaryLogPath(run[w].file)), SummaryHeader(run[w]))
       \/ Holds(LinesOf(fs, MasterSummaryPath), MasterHeader(run[w]))

\* C16, as stated: in every run the rotation of the old per-run logs comes
\* before the headers of the run are written: whenever a header of the run is
\* in a log, the run's cleanupOldLogs has returned.
C16_RotationFirst ==
    \A w \in Workers : HeaderWritten(w) => rot[w].result \in {"ok", "failed"}

\* the STARTING line of a timed action and its terminal line
IsStarting(c) == c.lvl = "ACTION" /\ Includes(c.msg, <<"STARTING", ":">>)
IsTerminal(c, ctx) ==
    \/ c.lvl = "SUCCESS" /\ Includes(c.msg, <<OkGlyph, "COMPLETED", ":", ctx>>)
    \/ c.lvl = "ERROR" /\ Includes(c.msg, <<FailGlyph, "FAILED", ":", ctx>>)
ContextOf(c) == c.msg[Len(c.msg)]

\* C17: the timed actions of one run never overlap: between the STARTING
\* lines of two timed actions of the run lies the terminal line (COMPLETED or
\* FAILED) of the first, in hooks and tests of all four suites.
C17_NoOverlap ==
    \A w \in Workers :
       \A i \in 1..Len(calls[w]), j \in 1..Len(calls[w]) :
          i < j /\ IsStarting(calls[w][i]) /\ IsStarting(calls[w][j])
          => \E k \in (i + 1)..(j - 1) : IsTerminal(calls[w][k], ContextOf(calls[w][i]))

\* a torn down run with timed actions in beforeAll, beforeEach and two test
\* bodies, the last of which failed
C17_Witness ==
    \E w \in Workers :
       /\ TornDown(w)
       /\ BeforeAllTimed(run[w].file)
       /\ EnteredTests(w) >= 2
       /\ \E i \in 1..Len(calls[w]) :
             calls[w][i].lvl = "ERROR" /\ Includes(calls[w][i].msg, <<FailGlyph, "FAILED", ":", "Test">>)
       /\ \E i \in 1..Len(calls[w]) : IsTerminal(calls[w][i], "Test") /\ calls[w][i].lvl = "SUCCESS"

\* the worker's fixtures are followed
Tracked(w) == browser[w].context # "untracked"

\* the pages handed to a hook or a test that are open
PagesInUse(w) == browser[w].open \cap browser[w].given

\* a test of the worker has its page: from its beforeEach hook to the end of
\* its body
InTest(w) == pc[w] \in {"fx_each", "fx_body", "fx_close"}

PassesAlone(f, i) ==
    PlaySteps(PageState(NoBrowser), BeforeEachSteps(f) \o TestSteps(f, i)).err = NoErr

\* C19: when a test body starts, the cart is in the state the last line of
\* beforeEach announces (empty in the cart suite, exactly the configured
\* product in the checkout suite), whichever tests the worker ran before; and
\* a test ends as it ends when it runs alone.
C19_CleanState ==
    \A w \in Workers : Tracked(w) =>
        /\ pc[w] = "fx_body" => browser[w].cart = Announced(run[w].file)
        /\ (pc[w] = "fx_close" /\ browser[w].result \in {"passed", "failed"})
              => ((browser[w].result = "passed") <=> PassesAlone(run[w].file, browser[w].test))

\* C20: every addProductToCart call left getCartCount one higher than it
\* was before the call.
C20_AddIncrements ==
    \A w \in Workers : \A o \in browser[w].adds : o.after = o.before + 1

\* C21: every wait of a pending timed action carries an explicit timeout, and
\* every timed action that was started settles, returning or raising.
C21_Terminates ==
    /\ [](\A w \in Workers :
            pc[w] = "ta_wait" => ExplicitTimeout(run[w].file, act[w].ctx))
    /\ \A w \in Workers : (pc[w] = "ta_wait") ~> (pc[w] # "ta_wait")

\* the logToFile calls of the timed action w started last: its STARTING
\* calls, its COMPLETED calls and its FAILED calls
StartingCalls(w) ==
    {i \in (act[w].from + 1)..Len(calls[w]) :
        /\ calls[w][i].lvl = "ACTION"
        /\ Includes(calls[w][i].msg, <<"STARTING", ":", act[w].ctx>>)}
CompletedCalls(w) ==
    {i \in (act[w].from + 1)..Len(calls[w]) :
        /\ calls[w][i].lvl = "SUCCESS"
        /\ Includes(calls[w][i].msg, <<OkGlyph, "COMPLETED", ":", act[w].ctx>>)}
FailedCalls(w) ==
    {i \in (act[w].from + 1)..Len(calls[w]) :
        /\ calls[w][i].lvl = "ERROR"
        /\ Includes(calls[w][i].msg, <<FailGlyph, "FAILED", ":", act[w].ctx>>)}
Settled(w) == act[w].status \in {"returned", "raised"}

\* the terminal record of a settled timed action is the one the outcome of
\* its operation calls for, and timeAction returns exactly when the operation
\* succeeded
OneTerminal(w) ==
    /\ Cardinality(CompletedCalls(w)) = (IF act[w].opErr = NoErr THEN 1 ELSE 0)
    /\ Cardinality(FailedCalls(w)) = (IF act[w].opErr = NoErr THEN 0 ELSE 1)
    /\ (act[w].status = "returned") <=> (act[w].opErr = NoErr)
    /\ \A i \in CompletedCalls(w) \cup FailedCalls(w) : i > act[w].from + 1

\* the STARTING line of a timed action is the first thing it logs, it is
\* logged once, and nothing terminal is logged while the operation is pending
OneStarting(w) ==
    /\ Settled(w) \/ act[w].status = "pending" => StartingCalls(w) = {act[w].from + 1}
    /\ act[w].status = "pending" => CompletedCalls(w) \cup FailedCalls(w) = {}

WarningsReported(w) ==
    {calls[w][i].val[1] : i \in {j \in 1..Len(calls[w]) :
                                    Includes(calls[w][j].msg, <<"Warnings", "Generated">>)}}

\* C23: the 'Warnings Generated' value of the final statistics of a run is
\* the number of WARNING-level lines the run logged (SLOW OPERATION warnings
\* and rotation-failure warnings), in every suite.
C23_Warnings ==
    \A w \in Workers :
        \A v \in WarningsReported(w) : v = Cardinality(WarningCalls(w, 0))

\* the FINAL STATISTICS headings and the 'Test Run Duration' lines w logged
StatisticsHeadings(w) ==
    {i \in 1..Len(calls[w]) : Includes(calls[w][i].msg, <<"FINAL", "STATISTICS">>)}
DurationLines(w) ==
    {i \in 1..Len(calls[w]) : Includes(calls[w][i].msg, <<"Test", "Run", "Duration">>)}

\* C24: a run that was torn down has logged the FINAL STATISTICS block once,
\* and its 'Test Run Duration' line carries one number, the duration of the
\* run, in each of the four suites.
C24_StatisticsOnce ==
    \A w \in Workers :
        TornDown(w) =>
            /\ Cardinality(StatisticsHeadings(w)) = 1
            /\ Cardinality(DurationLines(w)) = 1
            /\ \A i \in DurationLines(w) :
                  /\ Len(calls[w][i].val) = 1
                  /\ calls[w][i].val[1] \in Durations

\* C25: getCartCount never raises and returns a natural number: 0 when the
\* badge is not visible or reading it goes wrong in any way, otherwise the
\* number the badge shows, which is the number of products in the cart; a
\* failed read returns what an empty cart returns.
C25_CartCount ==
    \A w \in Workers :
        LET rd == browser[w].read
        IN rd.done =>
            /\ rd.thrown = NoErr
            /\ rd.value \in Nat
            /\ (rd.cart = {} \/ rd.fault # "none") => rd.value = 0
            /\ (rd.cart # {} /\ rd.fault = "none")
                  => /\ rd.value = Cardinality(rd.cart)
                     /\ BadgeText(rd.value) = BadgeText(Cardinality(rd.cart))
            /\ rd.fault # "none" => rd.value = GetCartCountRead({}, "none").value

\* textContent rejected on a badge showing 2, and the caller got 0
C25_Witness ==
    \E w \in Workers :
        /\ browser[w].read.done
        /\ browser[w].read.fault = "textContent"
        /\ Cardinality(browser[w].read.cart) = 2
        /\ browser[w].read.value = 0

\* C26: when a run has been torn down, passed + failed is the number of tests
\* the runner executed in the run; a test whose beforeEach hook raised before
\* the body started is one of them.
C26_Executed ==
    \A w \in Workers :
        TornDown(w) => testStats[w].passed + testStats[w].failed = tests[w]

\* C27: the rotation of a run never deletes the per-run log that run is
\* writing to: when cleanupOldLogs has returned, the run's own log is not among
\* the files it deleted and is still in the directory with its header, however
\* many older files the directory held and whatever other workers of the
\* feature did meanwhile.
C27_KeepsOwnLog ==
    \A w \in Workers :
        Returned(w) /\ Live(w) =>
            /\ LogFileName(run[w].file, run[w].id) \notin rot[w].deleted
            /\ Exists(fs, LogFilePath(run[w]))
            /\ budget.content => Head(LinesOf(fs, LogFilePath(run[w]))) = InitLogHeader(run[w])

\* the files a rotation selected for deletion
Selected(w) == {rot[w].del[i].name : i \in 1..Len(rot[w].del)}

\* C28: when workers of one feature rotate at the same time, no rotation
\* meets a file another one has deleted (no stat or unlink of it fails with
\* ENOENT), so a rotation that meets no other failure returns normally, and
\* then every file it selected for deletion has been deleted by it or is gone.
C28_ConcurrentRotations ==
    \A w \in Workers :
        Returned(w) =>
            /\ rot[w].err # "ENOENT"
            /\ rot[w].err = NoErr =>
                  /\ rot[w].result = "ok"
                  /\ Selected(w) \subseteq rot[w].deleted

\* the lines timeAction logs for an operation that returns: STARTING,
\* COMPLETED and the SLOW OPERATION warning
OrdinaryActionLine(c) ==
    \/ c.lvl = "ACTION" /\ Includes(c.msg, <<"STARTING", ":">>)
    \/ c.lvl = "SUCCESS" /\ Includes(c.msg, <<OkGlyph, "COMPLETED", ":">>)
    \/ c.lvl = "WARNING" /\ Includes(c.msg, <<"SLOW", "OPERATION">>)

\* C29: the global summary receives critical events only: no line logged at
\* level ACTION, SUCCESS, INFO or WARNING for an ordinary timed action (its
\* STARTING, COMPLETED and SLOW OPERATION lines) is appended to it.
C29_CriticalOnly ==
    \A w \in Workers :
        \A i \in 1..Len(calls[w]) :
            OrdinaryActionLine(calls[w][i])
            => ~Holds(LinesOf(fs, MasterSummaryPath),
                      MasterEntry(run[w], calls[w][i].msg, calls[w][i].val))

\* the lines of the two shared files of a feature
SharedLines(f) ==
    {LinesOf(fs, SummaryLogPath(f))[i] : i \in 1..Len(LinesOf(fs, SummaryLogPath(f)))}
    \cup {LinesOf(fs, MasterSummaryPath)[i] : i \in 1..Len(LinesOf(fs, MasterSummaryPath))}

\* C30: every line a run appends to the feature summary or to the global
\* summary carries the identifier of the run, the Run Started headers and the
\* final COMPLETED statistics line included: in a directory only this run
\* wrote to, every line of the two files names the run.
C30_Attributed ==
    \A w \in Workers :
        (pc[w] # "off" /\ \A v \in Workers \ {w} : pc[v] = "off")
        => \A l \in SharedLines(run[w].file) : LineOf(l, run[w].id)

====
